---- MODULE Spec2Model ----
(***************************************************************************)
(* State-machine model of the typhoon power generation ship simulator:     *)
(* the TPG ship tick (tpg_ship.py, TPG_ship.get_next_ship_state), the      *)
(* storage base (storage_base.py, Storage_base.operation_base), the two    *)
(* support ships (support_ship.py, Support_ship.get_next_ship_state) and   *)
(* the driver loop (optuna_simulator.py, simulate).                        *)
(*                                                                         *)
(* Units.  Time is counted in driver steps (one step = the driver's        *)
(* time_step of 6 hours), so catch times and arrival times are numbers of  *)
(* steps.  Positions are cells on one parallel of latitude: a position is  *)
(* a record [lat, lon], the distance of two positions is the number of     *)
(* cells between them, and a speed is a number of cells per step.  Energy  *)
(* is counted in integer units; the three efficiencies are the fraction    *)
(* 1/2 and every quantity on the propulsion-buffer side is even, so that   *)
(* every division and multiplication by an efficiency is exact.            *)
(***************************************************************************)
EXTENDS Integers, Sequences, FiniteSets, TLC

----------------------------------------------------------------------------
(* Bounds of the exploration *)

MaxTicks == 4          \* iterations of the driver loop (record_count)
MaxSupplyDist == 4     \* support ships: steps between supply base and storage base
MaxLossWork == 2       \* largest value returned by calculate_power_consumption
MaxRows == 3           \* rows of a forecast in the target-selection specification
MaxArrival == 2        \* typhoon arrival lead time of a forecast row, in steps
MaxBaseTicks == 15     \* loop iterations explored when only the base side is followed
MaxDebt == 8           \* base side: largest main-storage debt the ship is followed into

----------------------------------------------------------------------------
(* Program parameters *)

time_step == 1                       \* one driver step (6 h) is the unit of time
max_storage == 4                     \* TPG ship main storage capacity
electric_propulsion_max_storage_wh == 6
generator_output_w == 4              \* raw output per unit of time
judge_energy_storage_per == 100
govia_base_judge_energy_storage_per == 50
judge_direction == 10
nomal_ave_speed == 1                 \* return speed, cells per step
max_speed == 2                       \* cells per step
generating_speed_kt == 1
typhoon_effective_range == 1         \* cells
call_per == 60
base_max_storage == 6                \* Storage_base.max_storage
support_max_storage == 2             \* Support_ship.max_storage

elect_trust_efficiency == [num |-> 1, den |-> 2]
MCH_to_elect_efficiency == [num |-> 1, den |-> 2]
elect_to_MCH_efficiency == [num |-> 1, den |-> 2]
judge_time_times == [num |-> 3, den |-> 2]

BaseLat == 0
MaxLon == 4
base_pos == [lat |-> BaseLat, lon |-> 1]       \* Storage_base.locate
standby_pos == base_pos                        \* the driver sets standby = base
TyphoonPositions == {[lat |-> BaseLat, lon |-> 0], [lat |-> BaseLat, lon |-> MaxLon]}
TyphoonNumbers == {1}
forecast_weight == 50                          \* TPG_ship.forecast_weight
forecast_time == MaxArrival                    \* Forecaster.forecast_time, in steps
TY_mean_time_to_live == 3                      \* mean typhoon lifetime, in steps

----------------------------------------------------------------------------
(* Arithmetic helpers *)

Abs(x) == IF x < 0 THEN -x ELSE x

Max(a, b) == IF a >= b THEN a ELSE b

Min(a, b) == IF a <= b THEN a ELSE b

\* math.ceil(a / b) for a >= 0, b > 0
CeilDiv(a, b) == (a + b - 1) \div b

\* x / efficiency
DivEff(x, eff) == (x * eff.den) \div eff.num

\* x * efficiency
MulEff(x, eff) == (x * eff.num) \div eff.den

\* geodesic(a, b).km, in cells
Distance(a, b) == Abs(a.lat - b.lat) + Abs(a.lon - b.lon)

\* TPG_ship.get_direction: bearing of target seen from the ship, in degrees.
\* On one parallel the cross product is 10 * (difference of longitude) and
\* the dot product is 10 * (difference of latitude) = 0.
get_direction(ship_pos, target) ==
    LET gaiseki == 10 * (target.lon - ship_pos.lon)
        naiseki == 10 * (target.lat - ship_pos.lat)
    IN  IF gaiseki = 0 THEN (IF naiseki < 0 THEN 180 ELSE 0)
        ELSE IF gaiseki < 0 THEN -90
        ELSE 90

\* one step of straight travel of `advance` cells from p towards target
MoveTowards(p, target, advance) ==
    IF target.lon > p.lon THEN [p EXCEPT !.lon = p.lon + advance]
    ELSE [p EXCEPT !.lon = p.lon - advance]

----------------------------------------------------------------------------
(* TPG ship *)

NoRow == [exists |-> FALSE]

\* TPG_ship.set_initial_states
InitShip ==
    [ ship_pos |-> base_pos,
      speed_kt |-> 0,
      storage |-> 0,
      storage_percentage |-> 0,
      supply_elect |-> 0,
      gene_elect |-> 0,
      total_gene_elect |-> 0,
      total_loss_elect |-> 0,
      total_loss_time |-> 0,
      loss_elect |-> 0,
      loss_work |-> 0,
      ship_state |-> 0,
      target_name |-> "base station",
      target_pos |-> base_pos,
      target_TY |-> 0,
      target_TY_lat |-> -1,
      target_TY_lon |-> -1,
      go_base |-> 0,
      TY_and_base_action |-> 0,
      standby_via_base |-> 0,
      distance_check |-> 0,
      brance_condition |-> "start forecast",
      brance_history |-> << >>,
      GS_gene_judge |-> 0,
      GS_loss_judge |-> 0,
      electric_propulsion_storage_wh |-> electric_propulsion_max_storage_wh,
      electric_propulsion_storage_state |-> "no action",
      forecast_weight |-> forecast_weight ]

\* assignment to self.brance_condition; brance_history keeps the labels
\* assigned during the current tick, in order
SetBranch(s, label) ==
    [s EXCEPT !.brance_condition = label,
              !.brance_history = Append(s.brance_history, label)]

\* TPG_ship.get_next_position
get_next_position(s) ==
    LET Goal_now_distance == Distance(s.ship_pos, s.target_pos)
        advance_distance == s.speed_kt * time_step
    IN  IF Goal_now_distance # 0 /\ advance_distance > 0
           /\ advance_distance < Goal_now_distance
        THEN [s EXCEPT !.ship_pos = MoveTowards(s.ship_pos, s.target_pos, advance_distance)]
        ELSE [s EXCEPT !.ship_pos = s.target_pos]

\* variant of return_base_action that leaves the target position as it was
return_base_action_KeepTarget(s) ==
    LET s1 == SetBranch([s EXCEPT !.go_base = 1,
                                   !.speed_kt = nomal_ave_speed,
                                   !.target_name = "base station"],
                        "battery capacity exceeded specified ratio")
    IN  IF Distance(s1.ship_pos, base_pos) <= s1.speed_kt * time_step
        THEN [SetBranch(s1, "arrival at base station") EXCEPT
                 !.go_base = 0,
                 !.TY_and_base_action = 0,
                 !.speed_kt = 0,
                 !.supply_elect = s1.storage,
                 !.storage = 0,
                 !.GS_gene_judge = 0,
                 !.GS_loss_judge = 0,
                 !.ship_state = 0]
        ELSE [s1 EXCEPT !.GS_gene_judge = 0,
                        !.GS_loss_judge = 1,
                        !.ship_state = 4]

\* variant of return_base_action whose arrival branch clears the return flag
\* without handing over the storage
return_base_action_KeepsCargo(s) ==
    LET s1 == SetBranch([s EXCEPT !.target_pos = base_pos,
                                   !.go_base = 1,
                                   !.speed_kt = nomal_ave_speed,
                                   !.target_name = "base station"],
                        "battery capacity exceeded specified ratio")
    IN  IF Distance(s1.ship_pos, base_pos) <= s1.speed_kt * time_step
        THEN [SetBranch(s1, "arrival at base station") EXCEPT
                 !.go_base = 0,
                 !.TY_and_base_action = 0,
                 !.speed_kt = 0,
                 !.GS_gene_judge = 0,
                 !.GS_loss_judge = 0,
                 !.ship_state = 0]
        ELSE [s1 EXCEPT !.GS_gene_judge = 0,
                        !.GS_loss_judge = 1,
                        !.ship_state = 4]

\* TPG_ship.return_base_action
return_base_action(s) ==
    LET s1 == SetBranch([s EXCEPT !.target_pos = base_pos,
                                   !.go_base = 1,
                                   !.speed_kt = nomal_ave_speed,
                                   !.target_name = "base station"],
                        "battery capacity exceeded specified ratio")
    IN  IF Distance(s1.ship_pos, base_pos) <= s1.speed_kt * time_step
        THEN [SetBranch(s1, "arrival at base station") EXCEPT
                 !.go_base = 0,
                 !.TY_and_base_action = 0,
                 !.speed_kt = 0,
                 !.supply_elect = s1.storage,
                 !.storage = 0,
                 !.GS_gene_judge = 0,
                 !.GS_loss_judge = 0,
                 !.ship_state = 0]
        ELSE [s1 EXCEPT !.GS_gene_judge = 0,
                        !.GS_loss_judge = 1,
                        !.ship_state = 4]

\* variant of return_standby_action that leaves the target as it was
return_standby_action_KeepTarget(s) ==
    LET s1 == [SetBranch(s, "returning to standby position as no typhoon") EXCEPT
                  !.speed_kt = nomal_ave_speed]
    IN  IF Distance(s1.ship_pos, standby_pos) <= s1.speed_kt * time_step
        THEN LET s2 == [SetBranch(s1, "arrival at standby position") EXCEPT
                           !.speed_kt = 0,
                           !.GS_gene_judge = 0,
                           !.GS_loss_judge = 0,
                           !.ship_state = 0]
             IN  IF standby_pos = base_pos
                 THEN [s2 EXCEPT
                         !.supply_elect = s2.storage,
                         !.storage = 0,
                         !.electric_propulsion_storage_wh = electric_propulsion_max_storage_wh,
                         !.electric_propulsion_storage_state = "charge in Standby"]
                 ELSE s2
        ELSE [s1 EXCEPT !.GS_gene_judge = 0,
                        !.GS_loss_judge = 1,
                        !.ship_state = 4]

\* TPG_ship.return_standby_action
return_standby_action(s) ==
    LET s1 == [SetBranch(s, "returning to standby position as no typhoon") EXCEPT
                  !.target_pos = standby_pos,
                  !.target_name = "Standby position",
                  !.speed_kt = nomal_ave_speed]
    IN  IF Distance(s1.ship_pos, standby_pos) <= s1.speed_kt * time_step
        THEN LET s2 == [SetBranch(s1, "arrival at standby position") EXCEPT
                           !.speed_kt = 0,
                           !.GS_gene_judge = 0,
                           !.GS_loss_judge = 0,
                           !.ship_state = 0]
             IN  IF standby_pos = base_pos
                 THEN [s2 EXCEPT
                         !.supply_elect = s2.storage,
                         !.storage = 0,
                         !.electric_propulsion_storage_wh = electric_propulsion_max_storage_wh,
                         !.electric_propulsion_storage_state = "charge in Standby"]
                 ELSE s2
        ELSE [s1 EXCEPT !.GS_gene_judge = 0,
                        !.GS_loss_judge = 1,
                        !.ship_state = 4]

\* variant of typhoon_chase_action that treats every target as reachable
\* within one time step
typhoon_chase_action_AlwaysArrived(s, row) ==
    LET TY_tracking_speed == CeilDiv(row.distance * time_step, row.TY_CATCH_TIME)
        s1 == [SetBranch(s, "tracking typhoon at maximum ship speed started") EXCEPT
                  !.speed_kt = IF TY_tracking_speed > max_speed
                               THEN max_speed ELSE TY_tracking_speed,
                  !.target_pos = row.pos]
        s2 == [SetBranch(s1, "arrived at typhoon") EXCEPT
                  !.speed_kt = generating_speed_kt,
                  !.GS_gene_judge = 1,
                  !.GS_loss_judge = 0,
                  !.ship_state = 1]
        direction_to_TY == get_direction(s2.ship_pos, s2.target_pos)
        direction_to_base == get_direction(s2.ship_pos, base_pos)
        direction_difference == Abs(direction_to_TY - direction_to_base)
        need_distance == Distance(s2.ship_pos, base_pos) + Distance(s2.target_pos, base_pos)
        need_time_ok == need_distance <= row.TY_CATCH_TIME * max_speed
        distance_dis == Distance(s2.ship_pos, s2.target_pos) - Distance(s2.ship_pos, base_pos)
        s3 == [s2 EXCEPT !.TY_and_base_action = 0]
        via == SetBranch(return_base_action([s3 EXCEPT !.speed_kt = max_speed,
                                                        !.TY_and_base_action = 1]),
                         "tracking typhoon via base")
    IN  IF s3.storage_percentage >= govia_base_judge_energy_storage_per
        THEN IF need_time_ok THEN via
             ELSE IF direction_difference < judge_direction /\ distance_dis > 0 THEN via
             ELSE s3
        ELSE s3

\* variant of typhoon_chase_action that never takes the via-base detour
typhoon_chase_action_NoDetour(s, row) ==
    LET TY_tracking_speed == CeilDiv(row.distance * time_step, row.TY_CATCH_TIME)
        s1 == [SetBranch(s, "tracking typhoon at maximum ship speed started") EXCEPT
                  !.speed_kt = IF TY_tracking_speed > max_speed
                               THEN max_speed ELSE TY_tracking_speed,
                  !.target_pos = row.pos]
        s2 == IF row.TY_CATCH_TIME <= time_step
              THEN [SetBranch(s1, "arrived at typhoon") EXCEPT
                       !.speed_kt = generating_speed_kt,
                       !.GS_gene_judge = 1,
                       !.GS_loss_judge = 0,
                       !.ship_state = 1]
              ELSE [SetBranch(s1, "tracking typhoon") EXCEPT
                       !.GS_gene_judge = 0,
                       !.GS_loss_judge = 1,
                       !.ship_state = 2,
                       !.distance_check = 1]
    IN  [s2 EXCEPT !.TY_and_base_action = 0]

\* TPG_ship.typhoon_chase_action; row is target_TY_data[0]
typhoon_chase_action(s, row) ==
    LET \* speed that reaches the target exactly at TY_CATCH_TIME, capped at max speed
        TY_tracking_speed == CeilDiv(row.distance * time_step, row.TY_CATCH_TIME)
        s1 == [SetBranch(s, "tracking typhoon at maximum ship speed started") EXCEPT
                  !.speed_kt = IF TY_tracking_speed > max_speed
                               THEN max_speed ELSE TY_tracking_speed,
                  !.target_pos = row.pos]
        s2 == IF row.TY_CATCH_TIME <= time_step
              THEN [SetBranch(s1, "arrived at typhoon") EXCEPT
                       !.speed_kt = generating_speed_kt,
                       !.GS_gene_judge = 1,
                       !.GS_loss_judge = 0,
                       !.ship_state = 1]
              ELSE [SetBranch(s1, "tracking typhoon") EXCEPT
                       !.GS_gene_judge = 0,
                       !.GS_loss_judge = 1,
                       !.ship_state = 2,
                       !.distance_check = 1]
        direction_to_TY == get_direction(s2.ship_pos, s2.target_pos)
        direction_to_base == get_direction(s2.ship_pos, base_pos)
        direction_difference == Abs(direction_to_TY - direction_to_base)
        need_distance == Distance(s2.ship_pos, base_pos) + Distance(s2.target_pos, base_pos)
        \* need_time_hours <= TY_catch_time, with need_time_hours = need_distance / max speed
        need_time_ok == need_distance <= row.TY_CATCH_TIME * max_speed
        distance_dis == Distance(s2.ship_pos, s2.target_pos) - Distance(s2.ship_pos, base_pos)
        s3 == [s2 EXCEPT !.TY_and_base_action = 0]
        via == SetBranch(return_base_action([s3 EXCEPT !.speed_kt = max_speed,
                                                        !.TY_and_base_action = 1]),
                         "tracking typhoon via base")
    IN  IF s3.storage_percentage >= govia_base_judge_energy_storage_per
        THEN IF need_time_ok THEN via
             ELSE IF direction_difference < judge_direction /\ distance_dis > 0 THEN via
             ELSE s3
        ELSE s3

\* variant of ConsumeElect that draws the shortfall from the main storage
\* without the MCH conversion loss
ConsumeElect_NoPenalty(s) ==
    LET demand == DivEff(s.loss_work, elect_trust_efficiency)
    IN  IF s.electric_propulsion_storage_wh - demand >= 0
        THEN [s EXCEPT
                !.electric_propulsion_storage_wh = s.electric_propulsion_storage_wh - demand,
                !.loss_elect = demand,
                !.electric_propulsion_storage_state = "use only power storage for trust"]
        ELSE LET loss_elect_trust == demand - s.electric_propulsion_storage_wh
             IN  [s EXCEPT
                    !.electric_propulsion_storage_wh = 0,
                    !.storage = s.storage - loss_elect_trust,
                    !.loss_elect = 0 + loss_elect_trust,
                    !.electric_propulsion_storage_state = "use power from trust's and MCH's storage"]

\* variant of ConsumeElect that always debits the buffer, without the
\* shortfall branch
ConsumeElect_NoFloor(s) ==
    LET demand == DivEff(s.loss_work, elect_trust_efficiency)
    IN  [s EXCEPT
           !.electric_propulsion_storage_wh = s.electric_propulsion_storage_wh - demand,
           !.loss_elect = demand,
           !.electric_propulsion_storage_state = "use only power storage for trust"]

\* the consuming branch of the two-reservoir accounting (GS_loss_judge = 1)
ConsumeElect(s) ==
    LET demand == DivEff(s.loss_work, elect_trust_efficiency)
    IN  IF s.electric_propulsion_storage_wh - demand >= 0
        THEN [s EXCEPT
                !.electric_propulsion_storage_wh = s.electric_propulsion_storage_wh - demand,
                !.loss_elect = demand,
                !.electric_propulsion_storage_state = "use only power storage for trust"]
        ELSE LET loss_elect_trust == demand - s.electric_propulsion_storage_wh
                 from_MCH == DivEff(loss_elect_trust, MCH_to_elect_efficiency)
             IN  [s EXCEPT
                    !.electric_propulsion_storage_wh = 0,
                    !.storage = s.storage - from_MCH,
                    \* computed after the buffer has been set to 0
                    !.loss_elect = 0 + from_MCH,
                    !.electric_propulsion_storage_state = "use power from trust's and MCH's storage"]

\* variant of GenerateElect that stores the whole output in the main storage
\* whenever the buffer cannot take all of it
GenerateElect_NoTopUp(s) ==
    LET headroom == electric_propulsion_max_storage_wh - s.electric_propulsion_storage_wh
        s1 == [s EXCEPT !.loss_elect = s.loss_work]
    IN  IF s1.gene_elect < headroom
        THEN [s1 EXCEPT
                !.electric_propulsion_storage_wh = s.electric_propulsion_storage_wh + s.gene_elect,
                !.gene_elect = 0,
                !.electric_propulsion_storage_state = "charge power storage for trust"]
        ELSE [s1 EXCEPT
                !.gene_elect = MulEff(s.gene_elect, elect_to_MCH_efficiency),
                !.electric_propulsion_storage_state = "no charge"]

\* the generating branch of the two-reservoir accounting (GS_gene_judge = 1)
GenerateElect(s) ==
    LET headroom == electric_propulsion_max_storage_wh - s.electric_propulsion_storage_wh
        s1 == [s EXCEPT !.loss_elect = s.loss_work]
    IN  IF s1.gene_elect < headroom
        THEN [s1 EXCEPT
                !.electric_propulsion_storage_wh = s.electric_propulsion_storage_wh + s.gene_elect,
                !.gene_elect = 0,
                !.electric_propulsion_storage_state = "charge power storage for trust"]
        ELSE IF s1.electric_propulsion_storage_wh < electric_propulsion_max_storage_wh
        THEN [s1 EXCEPT
                !.gene_elect = MulEff(s.gene_elect - headroom, elect_to_MCH_efficiency),
                !.electric_propulsion_storage_wh = electric_propulsion_max_storage_wh,
                !.electric_propulsion_storage_state = "charge power storage for trust (full)"]
        ELSE [s1 EXCEPT
                !.gene_elect = MulEff(s.gene_elect, elect_to_MCH_efficiency),
                !.electric_propulsion_storage_state = "no charge"]

\* the capacity clamp of the main storage and the percentage refresh
StoreElect(s) ==
    LET sum == s.storage + s.gene_elect
        clamped == IF sum > max_storage THEN max_storage ELSE sum
    IN  [s EXCEPT !.storage = clamped,
                  !.storage_percentage = (clamped * 100) \div max_storage]

\* variant of EnergyAccounting whose generation is not gated by GS_gene_judge
EnergyAccounting_AlwaysGenerates(s, power) ==
    LET s1 == [s EXCEPT
                 !.speed_kt = IF s.GS_gene_judge = 1 THEN generating_speed_kt ELSE s.speed_kt,
                 !.loss_work = power * s.GS_loss_judge,
                 !.gene_elect = generator_output_w * time_step]
        s2 == IF s1.GS_loss_judge = 1 THEN ConsumeElect(s1)
              ELSE IF s1.GS_gene_judge = 1 THEN GenerateElect(s1)
              ELSE [s1 EXCEPT !.loss_elect = s1.loss_work]
        s3 == [s2 EXCEPT !.total_gene_elect = s2.total_gene_elect + s2.gene_elect,
                         !.total_loss_elect = s2.total_loss_elect + s2.loss_elect,
                         !.total_loss_time = s2.total_loss_time + time_step * s2.GS_loss_judge]
    IN  StoreElect(s3)

\* variant of EnergyAccounting that charges the drag of the generators to the
\* ship in a generating tick
EnergyAccounting_ChargesGenerating(s, power) ==
    LET s1 == [s EXCEPT
                 !.speed_kt = IF s.GS_gene_judge = 1 THEN generating_speed_kt ELSE s.speed_kt,
                 !.loss_work = power,
                 !.gene_elect = generator_output_w * time_step * s.GS_gene_judge]
        s2 == IF s1.GS_loss_judge = 1 THEN ConsumeElect(s1)
              ELSE IF s1.GS_gene_judge = 1 THEN GenerateElect(s1)
              ELSE [s1 EXCEPT !.loss_elect = s1.loss_work]
        s3 == [s2 EXCEPT !.total_gene_elect = s2.total_gene_elect + s2.gene_elect,
                         !.total_loss_elect = s2.total_loss_elect + s2.loss_elect,
                         !.total_loss_time = s2.total_loss_time + time_step * s2.GS_loss_judge]
    IN  StoreElect(s3)

\* the energy part of get_next_ship_state; power is the value returned by
\* calculate_power_consumption for this tick
EnergyAccounting(s, power) ==
    LET s1 == [s EXCEPT
                 \* calculate_power_consumption fixes the speed when generating
                 !.speed_kt = IF s.GS_gene_judge = 1 THEN generating_speed_kt ELSE s.speed_kt,
                 !.loss_work = power * s.GS_loss_judge,
                 !.gene_elect = generator_output_w * time_step * s.GS_gene_judge]
        s2 == IF s1.GS_loss_judge = 1 THEN ConsumeElect(s1)
              ELSE IF s1.GS_gene_judge = 1 THEN GenerateElect(s1)
              ELSE [s1 EXCEPT !.loss_elect = s1.loss_work]
        \* total_gene_elect takes the generation left after the buffer's share
        s3 == [s2 EXCEPT !.total_gene_elect = s2.total_gene_elect + s2.gene_elect,
                         !.total_loss_elect = s2.total_loss_elect + s2.loss_elect,
                         !.total_loss_time = s2.total_loss_time + time_step * s2.GS_loss_judge]
    IN  StoreElect(s3)

\* variant of ProximityCheck whose override leaves the consumption flag as
\* the chase set it
ProximityCheck_KeepsLossFlag(s, nxt) ==
    IF s.distance_check = 1
    THEN LET s1 == [s EXCEPT !.distance_check = 0]
         IN  IF nxt.exists /\ Distance(s1.ship_pos, nxt.pos) <= typhoon_effective_range
             THEN [SetBranch(s1, "within 50km of a typhoon following") EXCEPT
                      !.GS_gene_judge = 1,
                      !.ship_state = 1]
             ELSE [s1 EXCEPT !.GS_gene_judge = 0,
                             !.GS_loss_judge = 1,
                             !.ship_state = 2]
    ELSE s

\* variant of ProximityCheck that never switches to Generating
ProximityCheck_NoOverride(s, nxt) ==
    IF s.distance_check = 1
    THEN [s EXCEPT !.distance_check = 0,
                   !.GS_gene_judge = 0,
                   !.GS_loss_judge = 1,
                   !.ship_state = 2]
    ELSE s

\* the proximity check made after the position update
ProximityCheck(s, nxt) ==
    IF s.distance_check = 1
    THEN LET s1 == [s EXCEPT !.distance_check = 0]
         IN  IF nxt.exists /\ Distance(s1.ship_pos, nxt.pos) <= typhoon_effective_range
             THEN [SetBranch(s1, "within 50km of a typhoon following") EXCEPT
                      !.GS_gene_judge = 1,
                      !.GS_loss_judge = 0,
                      !.ship_state = 1]
             ELSE [s1 EXCEPT !.GS_gene_judge = 0,
                             !.GS_loss_judge = 1,
                             !.ship_state = 2]
    ELSE s

\* the decision part of get_next_ship_state: row is the result of
\* get_target_data (NoRow when empty)
DecideAction(s, row) ==
    IF s.storage_percentage >= judge_energy_storage_per \/ s.go_base = 1
    THEN LET s1 == return_base_action([s EXCEPT !.speed_kt = nomal_ave_speed])
         IN  IF ~row.exists \/ s1.storage_percentage >= judge_energy_storage_per
             THEN [s1 EXCEPT !.target_TY = 0]
             ELSE IF s1.storage_percentage >= govia_base_judge_energy_storage_per
                     /\ s1.TY_and_base_action = 1
             THEN LET s2 == [SetBranch(s1, "tracking typhoon via base") EXCEPT
                                !.speed_kt = max_speed,
                                !.target_name = row.num,
                                !.target_TY = row.num]
                  IN  IF s2.target_TY_lat # row.pos.lat \/ s2.target_TY_lon # row.pos.lon
                      THEN typhoon_chase_action(s2, row)
                      ELSE s2
             ELSE s1
    ELSE LET s1 == [s EXCEPT !.speed_kt = max_speed]
         IN  IF ~row.exists
             THEN IF s1.storage_percentage >= govia_base_judge_energy_storage_per
                  THEN [SetBranch(return_base_action(s1), "return standby via base") EXCEPT
                           !.standby_via_base = 1,
                           !.target_TY = 0]
                  ELSE [return_standby_action(s1) EXCEPT !.target_TY = 0]
             ELSE LET s2 == typhoon_chase_action([s1 EXCEPT !.target_name = row.num,
                                                             !.target_TY = row.num], row)
                  IN  [s2 EXCEPT !.target_TY_lat = row.pos.lat,
                                 \* the source stores FORE_LAT in both fields
                                 !.target_TY_lon = row.pos.lat]

\* TPG_ship.get_next_ship_state
get_next_ship_state(s, row, nxt, power) ==
    LET s0 == [s EXCEPT !.distance_check = 0,
                        !.electric_propulsion_storage_state = "no action",
                        !.standby_via_base = 0,
                        !.brance_history = << >>]
        s1 == DecideAction(s0, row)
        s2 == get_next_position(s1)
        s3 == ProximityCheck(s2, nxt)
    IN  EnergyAccounting(s3, power)

\* the speed get_target_data divides by: speed_kt as set before the call,
\* max speed when that is 0
TargetSpeed(s) ==
    IF s.storage_percentage >= judge_energy_storage_per \/ s.go_base = 1
    THEN IF Distance(s.ship_pos, base_pos) <= nomal_ave_speed * time_step
         THEN max_speed ELSE nomal_ave_speed
    ELSE max_speed

\* the judge_time_times filter of get_target_data: ship catch time / typhoon
\* arrival time <= judge_time_times
PassesJudgeTimeTimes(ship_pos, ship_speed, q, a) ==
    CeilDiv(Distance(ship_pos, q), ship_speed * time_step) * judge_time_times.den
        <= judge_time_times.num * a

\* the rows get_target_data can return for a ship at ship_pos: nothing, or a
\* forecast point q of a typhoon n with arrival lead time a that passes the
\* judge_time_times filter; TY_CATCH_TIME is the later of the ship's catch
\* time and the typhoon's arrival time
TargetRows(ship_pos, ship_speed) ==
    {NoRow} \cup
    { [exists |-> TRUE, num |-> t[1], pos |-> t[2], arrival |-> t[3],
       distance |-> Distance(ship_pos, t[2]),
       TY_CATCH_TIME |-> Max(CeilDiv(Distance(ship_pos, t[2]), ship_speed * time_step), t[3])] :
         t \in { u \in TyphoonNumbers \X TyphoonPositions \X (1..MaxArrival) :
                   PassesJudgeTimeTimes(ship_pos, ship_speed, u[2], u[3]) } }

\* the rows get_next_time_target_TY_data can return: the forecast point of
\* the targeted typhoon at current_time + time_step.  When the selected row
\* is itself the point at current_time + time_step it is that row.
NextTimeRows(row) ==
    IF ~row.exists THEN {NoRow}
    ELSE IF row.arrival = time_step THEN {[exists |-> TRUE, pos |-> row.pos]}
    ELSE {NoRow} \cup {[exists |-> TRUE, pos |-> q] : q \in TyphoonPositions}

----------------------------------------------------------------------------
(* Support ships *)

SupportShips == {1, 2}

\* Support_ship class attributes and __init__; supply_dist is the number of
\* steps between the ship's supply base and the storage base, dist_to_supply
\* the ship's current distance from its supply base
InitSupport(d) ==
    [ supply_dist |-> d,
      dist_to_supply |-> 0,
      max_storage |-> support_max_storage,
      storage |-> 0,
      ship_gene |-> 0,
      arrived_supplybase |-> 1,
      arrived_storagebase |-> 0,
      target |-> "nan",
      speed_kt |-> 0,
      brance_condition |-> "no action" ]

\* Support_ship.get_next_position: one step of cruise towards the target
support_get_next_position(u) ==
    LET goal == IF u.target = "storage" THEN u.supply_dist ELSE 0
        Goal_now_distance == Abs(goal - u.dist_to_supply)
        advance_distance == u.speed_kt * time_step
    IN  IF Goal_now_distance # 0 /\ advance_distance > 0
           /\ advance_distance < Goal_now_distance
        THEN [u EXCEPT !.dist_to_supply =
                 IF goal > u.dist_to_supply THEN u.dist_to_supply + advance_distance
                 ELSE u.dist_to_supply - advance_distance]
        ELSE [u EXCEPT !.dist_to_supply = goal]

\* variant of go_storagebase_action that never clears arrived_supplybase
go_storagebase_action_KeepSupplyFlag(u) ==
    LET u1 == [u EXCEPT !.speed_kt = 1,
                        !.target = "storage",
                        !.arrived_storagebase = 0]
    IN  IF u1.supply_dist - u1.dist_to_supply <= u1.speed_kt * time_step
        THEN [u1 EXCEPT !.brance_condition = "arrival at storage Base",
                        !.arrived_storagebase = 1,
                        !.dist_to_supply = u1.supply_dist,
                        !.speed_kt = 0]
        ELSE [u1 EXCEPT !.brance_condition = "go to storage Base",
                        !.arrived_storagebase = 0]

\* Support_ship.go_storagebase_action
go_storagebase_action(u) ==
    LET u1 == [u EXCEPT !.speed_kt = 1,
                        !.target = "storage",
                        !.arrived_storagebase = 0,
                        !.arrived_supplybase = 0]
    IN  IF u1.supply_dist - u1.dist_to_supply <= u1.speed_kt * time_step
        THEN [u1 EXCEPT !.brance_condition = "arrival at storage Base",
                        !.arrived_storagebase = 1,
                        !.arrived_supplybase = 0,
                        !.dist_to_supply = u1.supply_dist,
                        !.speed_kt = 0]
        ELSE [u1 EXCEPT !.brance_condition = "go to storage Base",
                        !.arrived_storagebase = 0]

\* variant of go_supplybase_action that keeps the cargo aboard on arrival at
\* the supply base
go_supplybase_action_KeepCargo(u) ==
    LET u1 == [u EXCEPT !.speed_kt = 1,
                        !.target = "supply",
                        !.arrived_supplybase = 0]
    IN  IF u1.dist_to_supply <= u1.speed_kt * time_step
        THEN [u1 EXCEPT !.brance_condition = "arrival at supply Base",
                        !.ship_gene = 0,
                        !.arrived_supplybase = 1,
                        !.arrived_storagebase = 0,
                        !.dist_to_supply = 0,
                        !.target = "nan",
                        !.speed_kt = 0]
        ELSE [u1 EXCEPT !.brance_condition = "go to supply Base",
                        !.arrived_supplybase = 0]

\* Support_ship.go_supplybase_action
go_supplybase_action(u) ==
    LET u1 == [u EXCEPT !.speed_kt = 1,
                        !.target = "supply",
                        !.arrived_supplybase = 0]
    IN  IF u1.dist_to_supply <= u1.speed_kt * time_step
        THEN [u1 EXCEPT !.brance_condition = "arrival at supply Base",
                        !.ship_gene = 0,
                        !.arrived_supplybase = 1,
                        !.arrived_storagebase = 0,
                        !.dist_to_supply = 0,
                        !.target = "nan",
                        !.storage = 0,
                        !.speed_kt = 0]
        ELSE [u1 EXCEPT !.brance_condition = "go to supply Base",
                        !.arrived_supplybase = 0]

\* Support_ship.get_next_ship_state
support_get_next_ship_state(u) ==
    LET u1 == IF u.arrived_storagebase = 0 /\ u.arrived_supplybase = 1
              THEN go_storagebase_action(u)
              ELSE IF u.arrived_storagebase = 1 /\ u.arrived_supplybase = 0
              THEN go_supplybase_action(u)
              ELSE IF u.arrived_storagebase = 0 /\ u.arrived_supplybase = 0
              THEN go_storagebase_action(u)
              ELSE [u EXCEPT !.arrived_supplybase = 0, !.arrived_storagebase = 0]
    IN  IF u1.target # "nan" THEN support_get_next_position(u1) ELSE u1

----------------------------------------------------------------------------
(* Storage base *)

\* Storage_base class attributes and __init__
InitBase ==
    [ max_storage |-> base_max_storage,
      storage |-> 0,
      call_num |-> 0,
      call_ship1 |-> 0,
      call_ship2 |-> 0,
      brance_condition |-> "while in storage",
      MCH_discharged_cargo_quantity |-> 0,
      \* history field: the sum of the amounts the support ships have taken on
      supplied_total |-> 0 ]

\* A world is the triple the base operates on: the base b, the TPG ship s
\* and the two support ships u (a function on SupportShips).

\* variant of storage_elect that stores the payload without entering it in the
\* cumulative ledger
storage_elect_NoLedger(w) ==
    [w EXCEPT !.b.storage = w.b.storage + w.s.supply_elect,
              !.s.supply_elect = IF w.s.supply_elect > 0 THEN 0 ELSE w.s.supply_elect]

\* Storage_base.storage_elect
storage_elect(w) ==
    [w EXCEPT !.b.storage = w.b.storage + w.s.supply_elect,
              !.b.MCH_discharged_cargo_quantity =
                    w.b.MCH_discharged_cargo_quantity + w.s.supply_elect,
              !.s.supply_elect = IF w.s.supply_elect > 0 THEN 0 ELSE w.s.supply_elect]

\* variant of Transfer that empties the base whatever the ship could take
Transfer_EmptiesBase(w, i) ==
    IF w.b.storage <= w.u[i].max_storage
    THEN [w EXCEPT !.u[i].storage = w.u[i].storage + w.b.storage,
                   !.b.storage = 0,
                   !.b.supplied_total = w.b.supplied_total + w.b.storage,
                   !.b.call_num = w.b.call_num + 1]
    ELSE [w EXCEPT !.u[i].storage = w.u[i].max_storage,
                   !.b.storage = 0,
                   !.b.supplied_total = w.b.supplied_total
                                          + (w.u[i].max_storage - w.u[i].storage),
                   !.b.call_num = w.b.call_num + 1]

\* the hand-over to an arrived support ship i inside supply_elect
Transfer(w, i) ==
    IF w.b.storage <= w.u[i].max_storage
    THEN [w EXCEPT !.u[i].storage = w.u[i].storage + w.b.storage,
                   !.b.storage = 0,
                   !.b.supplied_total = w.b.supplied_total + w.b.storage,
                   !.b.call_num = w.b.call_num + 1]
    ELSE [w EXCEPT !.u[i].storage = w.u[i].max_storage,
                   !.b.storage = w.b.storage - w.u[i].max_storage,
                   !.b.supplied_total = w.b.supplied_total
                                          + (w.u[i].max_storage - w.u[i].storage),
                   !.b.call_num = w.b.call_num + 1]

\* the "call ship1" branch of supply_elect
CallShip1(w) ==
    LET w1 == [w EXCEPT !.b.brance_condition = "call ship1",
                        !.b.call_ship1 = 1,
                        !.u[1] = support_get_next_ship_state(w.u[1])]
    IN  IF w1.u[1].arrived_storagebase = 1
        THEN Transfer([w1 EXCEPT !.b.call_ship1 = 0], 1)
        ELSE w1

\* the "call ship2" branch of supply_elect
CallShip2(w) ==
    LET w1 == [w EXCEPT !.b.brance_condition = "call ship2",
                        !.b.call_ship2 = 1,
                        !.u[2] = support_get_next_ship_state(w.u[2])]
    IN  IF w1.u[2].arrived_storagebase = 1
        THEN Transfer([w1 EXCEPT !.b.call_ship2 = 0], 2)
        ELSE w1

\* variant of supply_elect that tries ship 2 before ship 1
supply_elect_Ship2First(w) ==
    IF w.u[2].arrived_supplybase = 1 \/ w.b.call_ship2 = 1 THEN CallShip2(w)
    ELSE IF w.u[1].arrived_supplybase = 1 \/ w.b.call_ship1 = 1 THEN CallShip1(w)
    ELSE [w EXCEPT !.b.brance_condition = "can't call anyone"]

\* variant of supply_elect whose last branch discards the stored energy
supply_elect_DropsWhenNoShip(w) ==
    IF w.u[1].arrived_supplybase = 1 \/ w.b.call_ship1 = 1 THEN CallShip1(w)
    ELSE IF w.u[2].arrived_supplybase = 1 \/ w.b.call_ship2 = 1 THEN CallShip2(w)
    ELSE [w EXCEPT !.b.brance_condition = "can't call anyone",
                   !.b.storage = 0]

\* Storage_base.supply_elect
supply_elect(w) ==
    IF w.u[1].arrived_supplybase = 1 \/ w.b.call_ship1 = 1 THEN CallShip1(w)
    ELSE IF w.u[2].arrived_supplybase = 1 \/ w.b.call_ship2 = 1 THEN CallShip2(w)
    ELSE [w EXCEPT !.b.brance_condition = "can't call anyone"]

\* the call threshold of operation_base: storage >= max_storage * call_per / 100
ReachesCallThreshold(w) ==
    w.b.storage * 100 >= w.u[1].max_storage * call_per

\* the transit steps operation_base gives to the ships away from their
\* supply base, ship 1 first
MoveShipsInTransit(w) ==
    LET w1 == IF w.u[1].arrived_supplybase = 0
              THEN [w EXCEPT !.u[1] = support_get_next_ship_state(w.u[1])] ELSE w
    IN  IF w1.u[2].arrived_supplybase = 0
        THEN [w1 EXCEPT !.u[2] = support_get_next_ship_state(w1.u[2])] ELSE w1

\* variant of operation_base that takes the dispatch decision on the storage
\* held before this tick's payload is credited
operation_base_DecideBeforeStorage(w) ==
    LET w1 == [storage_elect(w) EXCEPT !.b.brance_condition = "while in storage"]
        w2 == MoveShipsInTransit(w1)
    IN  IF ReachesCallThreshold(w) THEN supply_elect(w2) ELSE w2

\* Storage_base.operation_base
operation_base(w) ==
    LET w1 == [storage_elect(w) EXCEPT !.b.brance_condition = "while in storage"]
        w2 == MoveShipsInTransit(w1)
    IN  IF ReachesCallThreshold(w2) THEN supply_elect(w2) ELSE w2

----------------------------------------------------------------------------
(* Target selection: TPG_ship.get_target_data as a function of the forecast.
   Times are in steps relative to current_time; a forecast row is
   [num, pos, unixtime]. *)

ForecastNumbers == {1, 2}
LandPos == [lat |-> BaseLat, lon |-> -1]
ForecastPositions == TyphoonPositions \cup {LandPos}
ForecastRows ==
    [num : ForecastNumbers, pos : ForecastPositions, unixtime : 1..forecast_time]

SetMax(S) == CHOOSE m \in S : \A x \in S : x <= m
SetMin(S) == CHOOSE m \in S : \A x \in S : m <= x

\* The cells on the map.  A cell is one degree wide; its coordinates are kept
\* in tenths of a degree.  The parallel of the base is 20 N, which lies
\* in the band 15 N to 24 N, and the cell of longitude 0 is on the coast of
\* that band, 123 E.
BaseLatDeg10 == 200
CoastLonDeg10 == 1230
FORE_LAT(pos) == BaseLatDeg10 + 10 * pos.lat
FORE_LON(pos) == CoastLonDeg10 + 10 * pos.lon

\* the latitude bands of the land-recognition filter of get_target_data and
\* the longitude threshold of each, in tenths of a degree
LandBands ==
    { [lo |-> 0,   hi |-> 130, lon |-> 1275],
      [lo |-> 130, hi |-> 150, lon |-> 1250],
      [lo |-> 150, hi |-> 240, lon |-> 1230],
      [lo |-> 240, hi |-> 260, lon |-> 1260],
      [lo |-> 260, hi |-> 280, lon |-> 1301],
      [lo |-> 280, hi |-> 322, lon |-> 1324],
      [lo |-> 322, hi |-> 340, lon |-> 1372],
      [lo |-> 340, hi |-> 412, lon |-> 1430],
      [lo |-> 412, hi |-> 440, lon |-> 1490],
      [lo |-> 440, hi |-> 500, lon |-> 1560] }

\* latitude from which the filter keeps every longitude
OpenSeaLat == 500

\* the land-recognition filter at the head of get_target_data: a row is kept
\* when one of the alternatives of the filter expression accepts it
InSeaArea(pos) ==
    \/ \E band \in LandBands :
          /\ FORE_LAT(pos) >= band.lo /\ FORE_LAT(pos) <= band.hi
          /\ FORE_LON(pos) >= band.lon
    \/ FORE_LAT(pos) >= OpenSeaLat

\* TY_forecast_end_time of typhoon n: its last forecast time among rows
TY_forecast_end_time(rows, n) == SetMax({r.unixtime : r \in {q \in rows : q.num = n}})

\* FORE_GENE_TIME of row r
FORE_GENE_TIME(rows, starts, r) ==
    LET end_time_forecast_TY == TY_forecast_end_time(rows, r.num)
        start_time_forecast_TY == starts[r.num]
        last_forecast_time == forecast_time
    IN  IF end_time_forecast_TY = last_forecast_time
           /\ end_time_forecast_TY - start_time_forecast_TY < TY_mean_time_to_live
        THEN start_time_forecast_TY + TY_mean_time_to_live - r.unixtime
        ELSE end_time_forecast_TY - r.unixtime

\* the speed get_target_data divides by: the ship's speed, max speed when 0
CatchSpeed(s) == IF s.speed_kt = 0 THEN max_speed ELSE s.speed_kt

\* the forecast rows with the columns get_target_data adds
WithColumns(s, rows, starts) ==
    { LET ship_catch_time == CeilDiv(Distance(s.ship_pos, r.pos), CatchSpeed(s) * time_step)
          typhoon_arrival_time == r.unixtime
          gene == FORE_GENE_TIME(rows, starts, r)
          catch == IF typhoon_arrival_time > ship_catch_time
                   THEN typhoon_arrival_time ELSE ship_catch_time
      IN  [ num |-> r.num, pos |-> r.pos, unixtime |-> r.unixtime,
            FORE_GENE_TIME |-> gene,
            distance |-> Distance(s.ship_pos, r.pos),
            TY_CATCH_TIME |-> catch,
            TIME_EFFECT |-> gene * s.forecast_weight - catch * (100 - s.forecast_weight) ]
      : r \in rows }

\* the candidates: rows that survive the sea-area and judge_time_times filters
PassingRows(s, rows, starts) ==
    { r \in WithColumns(s, { q \in rows : InSeaArea(q.pos) }, starts) :
        PassesJudgeTimeTimes(s.ship_pos, CatchSpeed(s), r.pos, r.unixtime) }

\* the three selection steps at the tail of get_target_data
SelectBest(passed) ==
    IF passed = {} THEN {}
    ELSE LET time_effect == SetMax({r.TIME_EFFECT : r \in passed})
             by_effect == {r \in passed : r.TIME_EFFECT = time_effect}
         IN  IF Cardinality(by_effect) > 1
             THEN LET gene_time_max == SetMax({r.FORE_GENE_TIME : r \in by_effect})
                      by_gene == {r \in by_effect : r.FORE_GENE_TIME = gene_time_max}
                  IN  IF Cardinality(by_gene) > 1
                      THEN LET catch_min == SetMin({r.TY_CATCH_TIME : r \in by_gene})
                           IN  {r \in by_gene : r.TY_CATCH_TIME = catch_min}
                      ELSE by_gene
             ELSE by_effect

\* variant of get_target_data that stops after the TIME_EFFECT step
get_target_data_ScoreOnly(s, rows, starts) ==
    LET passed == PassingRows(s, rows, starts)
    IN  IF passed = {} THEN {}
        ELSE LET time_effect == SetMax({r.TIME_EFFECT : r \in passed})
             IN  {r \in passed : r.TIME_EFFECT = time_effect}

\* variant of get_target_data without the judge_time_times filter
get_target_data_NoJudgeFilter(s, rows, starts) ==
    SelectBest(WithColumns(s, { q \in rows : InSeaArea(q.pos) }, starts))

\* variant of get_target_data that leaves out the typhoon the ship targeted
\* in the tick before
get_target_data_SkipsOldTarget(s, rows, starts) ==
    SelectBest(PassingRows(s, { r \in rows : r.num # s.target_TY }, starts))

\* TPG_ship.get_target_data: the set of rows of the returned frame
get_target_data(s, rows, starts) == SelectBest(PassingRows(s, rows, starts))

----------------------------------------------------------------------------
(* Forecaster: forecaster.py.  Here unixtime is counted in seconds and the
   track points of original_data lie on whole hours, so that every division
   by the number of seconds in an hour is exact. *)

SecondsPerHour == 3600
MaxTrackHour == 4       \* latest hour of a track point
MaxTrack == 3           \* largest number of track points
MaxSlope == 1           \* largest forecast_error_slope
MaxForecastTicks == 2   \* loop iterations explored on the forecaster side

\* Forecaster.__init__
InitForecaster ==
    [ forecast_time |-> forecast_time, slope |-> 0, original_data |-> {} ]

\* the rows original_data can hold: [num, pos, unixtime]
TrackRows ==
    [ num : TyphoonNumbers, pos : TyphoonPositions,
      unixtime : { h * SecondsPerHour : h \in 0..MaxTrackHour } ]

\* the tracks: at most one point of a typhoon at a time
Tracks ==
    { T \in SUBSET TrackRows :
        /\ Cardinality(T) <= MaxTrack
        /\ \A a, b \in T : (a.num = b.num /\ a.unixtime = b.unixtime) => a = b }

\* variant of cal_error_radius_km that counts from current_time
cal_error_radius_km_FromNow(f, time_step_, advance_time_hour) ==
    f.slope * advance_time_hour

\* Forecaster.cal_error_radius_km
cal_error_radius_km(f, time_step_, advance_time_hour) ==
    f.slope * (advance_time_hour - time_step_)

\* advance_time_hour of a track point in create_forecast
advance_time_hour_of(r, current_time_) ==
    (r.unixtime - current_time_) \div SecondsPerHour

\* the positions random.gauss can return for a track point: the true point
\* when the standard deviations are 0 (cal_forecast_point_lat_sd and
\* cal_forecast_point_lon_sd return 0 unless the error radius is positive),
\* any position otherwise
ForecastPoints(f, time_step_, current_time_, r) ==
    IF cal_error_radius_km(f, time_step_, advance_time_hour_of(r, current_time_)) > 0
    THEN ForecastPositions
    ELSE {r.pos}

\* the rows of forecast_true_data in create_forecast
forecast_true_data(f, time_step_, current_time_) ==
    LET unix_forecast_time == f.forecast_time * SecondsPerHour
        start_forecast_time == current_time_ + time_step_ * SecondsPerHour
        last_forecast_time == current_time_ + unix_forecast_time
    IN  { r \in f.original_data :
            r.unixtime >= start_forecast_time /\ r.unixtime <= last_forecast_time }

\* the frames built from the selected track points: one row
\* [unixtime, num, TRUE_pos, pos] for each of them
ForecastFrames(f, time_step_, current_time_, true_data) ==
    { { [ unixtime |-> r.unixtime, num |-> r.num, TRUE_pos |-> r.pos, pos |-> g[r] ]
        : r \in true_data }
      : g \in { h \in [true_data -> ForecastPositions] :
                  \A r \in true_data : h[r] \in ForecastPoints(f, time_step_, current_time_, r) } }

\* variant of create_forecast whose window excludes its last instant
create_forecast_OpenEnd(f, time_step_, current_time_) ==
    ForecastFrames(f, time_step_, current_time_,
        { r \in forecast_true_data(f, time_step_, current_time_) :
            r.unixtime < current_time_ + f.forecast_time * SecondsPerHour })

\* variant of create_forecast whose window starts at current_time
create_forecast_FromNow(f, time_step_, current_time_) ==
    ForecastFrames(f, time_step_, current_time_,
        { r \in f.original_data :
            r.unixtime >= current_time_
            /\ r.unixtime <= current_time_ + f.forecast_time * SecondsPerHour })

\* Forecaster.create_forecast: the frames it can return
create_forecast(f, time_step_, current_time_) ==
    ForecastFrames(f, time_step_, current_time_,
                   forecast_true_data(f, time_step_, current_time_))

\* typhoon_arrival_time of a forecast row in get_target_data: int() of the
\* hours from current_time, which truncates toward zero
typhoon_arrival_time(r, current_time_) ==
    LET d == r.unixtime - current_time_
    IN  IF d >= 0 THEN d \div SecondsPerHour ELSE 0 - ((0 - d) \div SecondsPerHour)

\* TY_start_time_list as get_target_data above reads it: hours from
\* current_time (start times lie on whole hours)
RelativeStarts(starts, current_time_) ==
    [ n \in DOMAIN starts |-> (starts[n] - current_time_) \div SecondsPerHour ]

\* the forecast as get_target_data above reads it: times in hours from
\* current_time
RelativeRows(rows, current_time_) ==
    { [ num |-> r.num, pos |-> r.pos, unixtime |-> typhoon_arrival_time(r, current_time_) ]
      : r \in rows }

----------------------------------------------------------------------------
(* The driver loop *)

VARIABLES
    ship,      \* the TPG ship
    base,      \* the storage base
    sup,       \* the two support ships
    tick,      \* number of completed loop iterations
    pc,        \* position in the loop body: "ship" or "base"
    forecast_data,       \* TPG_ship.forecast_data: the rows of the current forecast
    TY_start_time_list,  \* TPG_ship.TY_start_time_list: start time of each typhoon
    target_TY_data,      \* the rows returned by the last call of get_target_data
    next_time_TY_data,   \* the rows returned by get_next_time_target_TY_data
    forecaster           \* the Forecaster: forecast_time, slope, original_data

vars == <<ship, base, sup, tick, pc, forecast_data, TY_start_time_list,
          target_TY_data, next_time_TY_data, forecaster>>

\* the variables of the target selection
fvars == <<forecast_data, TY_start_time_list, target_TY_data, next_time_TY_data,
           forecaster>>

Init ==
    /\ ship = InitShip
    /\ base = InitBase
    /\ sup \in { [i \in SupportShips |-> InitSupport(IF i = 1 THEN d[1] ELSE d[2])] :
                   d \in (1..MaxSupplyDist) \X (1..MaxSupplyDist) }
    /\ tick = 0
    /\ pc = "ship"
    /\ forecast_data = {}
    /\ TY_start_time_list = [n \in ForecastNumbers |-> 0]
    /\ target_TY_data = {}
    /\ next_time_TY_data = {}
    /\ forecaster = InitForecaster

\* forecast refresh, then the ship step
ShipTickWith(powers) ==
    /\ pc = "ship"
    /\ \E row \in TargetRows(ship.ship_pos, TargetSpeed(ship)) :
       \E nxt \in NextTimeRows(row) :
       \E power \in powers :
          /\ ship' = get_next_ship_state(ship, row, nxt, power)
          \* target_TY_data = self.get_target_data(...), empty when no row
          /\ target_TY_data' = IF row.exists THEN {row} ELSE {}
          /\ next_time_TY_data' = IF nxt.exists THEN {nxt} ELSE {}
    /\ pc' = "base"
    /\ UNCHANGED <<base, sup, tick, forecast_data, TY_start_time_list, forecaster>>

\* the ship step of a loop of MaxTicks iterations
ShipStep ==
    /\ tick < MaxTicks
    /\ ShipTickWith(0..MaxLossWork)

\* the base step, then the clock advance
BaseStep ==
    /\ pc = "base"
    /\ LET w == operation_base([b |-> base, s |-> ship, u |-> sup])
       IN  /\ base' = w.b
           /\ ship' = w.s
           /\ sup' = w.u
    /\ tick' = tick + 1
    /\ pc' = "ship"
    \* the frames of the finished tick are never read again: the next ship
    \* step replaces them before any use
    /\ target_TY_data' = {}
    /\ next_time_TY_data' = {}
    /\ UNCHANGED <<forecast_data, TY_start_time_list, forecaster>>

Next == ShipStep \/ BaseStep

\* the initial states followed on the ship's side: both support ships are
\* stationed at the same distance from the storage base
InitShipSide ==
    /\ Init
    /\ \E d \in 1..MaxSupplyDist : sup = [i \in SupportShips |-> InitSupport(d)]

Spec == InitShipSide /\ [][Next]_vars

----------------------------------------------------------------------------
(* The base side alone.  The base reads one field of the TPG ship,         *)
(* supply_elect, which the ship sets to its main storage when it unloads.  *)
(* Here the ship is followed only through its main storage: in a tick it   *)
(* either sails on (the storage keeps its value or gains a generated       *)
(* amount, truncated at capacity), or pays a propulsion shortfall from the *)
(* main storage, or arrives and unloads.  The amounts are those of the     *)
(* accounting above; where the ship is plays no part on the base side.     *)

\* main-storage gain of a tick without unloading: nothing, or the generated
\* amount after the buffer has taken its share (GenerateElect)
StorageGains == {0, MulEff(generator_output_w * time_step, elect_to_MCH_efficiency)}

\* main-storage debit of a consuming tick with an empty buffer (ConsumeElect)
StorageDebits == {DivEff(DivEff(1, elect_trust_efficiency), MCH_to_elect_efficiency)}

\* a tick of the ship without unloading and without shortfall
SailStep ==
    /\ pc = "ship"
    /\ tick < MaxBaseTicks
    /\ \E g \in StorageGains :
          ship' = [ship EXCEPT !.storage = Min(ship.storage + g, max_storage)]
    /\ pc' = "base"
    /\ UNCHANGED <<base, sup, tick>>
    /\ UNCHANGED fvars

\* a consuming tick of the ship whose shortfall is drawn from main storage
ShortfallStep ==
    /\ pc = "ship"
    /\ tick < MaxBaseTicks
    /\ \E d \in StorageDebits :
          /\ ship.storage - d >= -MaxDebt
          /\ ship' = [ship EXCEPT !.storage = ship.storage - d]
    /\ pc' = "base"
    /\ UNCHANGED <<base, sup, tick>>
    /\ UNCHANGED fvars

\* a tick in which the ship arrives at the base and unloads
UnloadStep ==
    /\ pc = "ship"
    /\ tick < MaxBaseTicks
    /\ ship' = [ship EXCEPT !.supply_elect = ship.storage, !.storage = 0]
    /\ pc' = "base"
    /\ UNCHANGED <<base, sup, tick>>
    /\ UNCHANGED fvars

NextBase == SailStep \/ ShortfallStep \/ UnloadStep \/ BaseStep

SpecBase == Init /\ [][NextBase]_vars

\* the base side when the ship never draws a shortfall from main storage
NextBaseNoShortfall == SailStep \/ UnloadStep \/ BaseStep

SpecBaseNoShortfall == Init /\ [][NextBaseNoShortfall]_vars

----------------------------------------------------------------------------
(* Target selection on its own: every forecast of at most MaxRows rows, with
   one position per typhoon and time, for every ship position and speed. *)

ForecastWeights == {forecast_weight, 100}
StartTimes == {0 - forecast_time, 0}

Forecasts ==
    { F \in SUBSET ForecastRows :
        /\ Cardinality(F) <= MaxRows
        /\ \A a, b \in F : (a.num = b.num /\ a.unixtime = b.unixtime) => a = b }

InitTarget ==
    /\ ship \in { [InitShip EXCEPT !.ship_pos = [lat |-> BaseLat, lon |-> x],
                                   !.speed_kt = v,
                                   !.forecast_weight = w] :
                    x \in 0..MaxLon, v \in {0, nomal_ave_speed, max_speed},
                    w \in ForecastWeights }
    /\ base = InitBase
    /\ sup = [i \in SupportShips |-> InitSupport(1)]
    /\ tick = 0
    /\ pc = "forecast"
    /\ forecast_data \in Forecasts
    /\ TY_start_time_list \in [ForecastNumbers -> StartTimes]
    /\ target_TY_data = {}
    /\ next_time_TY_data = {}
    /\ forecaster = InitForecaster

\* one call of get_target_data on the current forecast
SelectTarget ==
    /\ pc = "forecast"
    /\ target_TY_data' = get_target_data(ship, forecast_data, TY_start_time_list)
    /\ pc' = "target"
    /\ UNCHANGED <<ship, base, sup, tick, forecast_data, TY_start_time_list,
                   next_time_TY_data, forecaster>>

NextTarget == SelectTarget

SpecTarget == InitTarget /\ [][NextTarget]_vars

----------------------------------------------------------------------------
(* The forecaster side of the loop: the forecast of the tick is created     *)
(* from the track, then the ship selects its target from it and the clock   *)
(* advances.  The ship stays where it is.                                   *)

\* current_time of the driver: it starts at 0 here and advances by
\* time_step_unix at the end of each iteration
current_time == tick * time_step * SecondsPerHour

InitForecast ==
    /\ ship \in { [InitShip EXCEPT !.speed_kt = v] : v \in {0, nomal_ave_speed} }
    /\ base = InitBase
    /\ sup = [i \in SupportShips |-> InitSupport(1)]
    /\ tick = 0
    /\ pc = "forecast"
    /\ forecast_data = {}
    /\ TY_start_time_list = [n \in ForecastNumbers |-> 0]
    /\ target_TY_data = {}
    /\ next_time_TY_data = {}
    /\ forecaster \in { [InitForecaster EXCEPT !.slope = m, !.original_data = T] :
                          m \in 0..MaxSlope, T \in Tracks }

\* tpg_ship_1.forecast_data = typhoon_path_forecaster.create_forecast(...)
CreateForecast ==
    /\ pc = "forecast"
    /\ tick < MaxForecastTicks
    /\ forecast_data' \in create_forecast(forecaster, time_step, current_time)
    /\ pc' = "target"
    /\ UNCHANGED <<ship, base, sup, tick, TY_start_time_list, target_TY_data,
                   next_time_TY_data, forecaster>>

\* get_target_data on the forecast of the tick, then the clock advance
ScoreForecast ==
    /\ pc = "target"
    /\ target_TY_data' = get_target_data(ship, RelativeRows(forecast_data, current_time),
                                         RelativeStarts(TY_start_time_list, current_time))
    /\ tick' = tick + 1
    /\ pc' = "forecast"
    /\ UNCHANGED <<ship, base, sup, forecast_data, TY_start_time_list,
                   next_time_TY_data, forecaster>>

NextForecast == CreateForecast \/ ScoreForecast

SpecForecast == InitForecast /\ [][NextForecast]_vars

----------------------------------------------------------------------------
(* The land-recognition filter of get_target_data on forecasts that lie     *)
(* around the coast line: one call of get_target_data on a forecast whose   *)
(* points are drawn from cells on, between and beyond the band boundaries.  *)

MaxLandRows == 2        \* largest number of rows of such a forecast

\* cells at 1 S, 12 N, 13 N, 14 N and 50 N, at 124 E, 125 E, 126 E and 128 E
LandCells == [lat : {-21, -8, -7, -6, 30}, lon : {1, 2, 3, 5}]

LandRows == [num : TyphoonNumbers, pos : LandCells, unixtime : 1..forecast_time]

\* the sets of at most k rows
RECURSIVE RowSetsUpTo(_)
RowSetsUpTo(k) ==
    IF k = 0 THEN {{}}
    ELSE LET P == RowSetsUpTo(k - 1)
         IN  P \cup { F \cup {r} : F \in P, r \in LandRows }

\* the forecasts: at most one point of a typhoon at a time
LandForecasts ==
    { F \in RowSetsUpTo(MaxLandRows) :
        \A a, b \in F : (a.num = b.num /\ a.unixtime = b.unixtime) => a = b }

InitLand ==
    /\ ship \in { [InitShip EXCEPT !.ship_pos = c, !.speed_kt = max_speed] :
                    c \in { [lat |-> -7, lon |-> 3], [lat |-> 30, lon |-> 2] } }
    /\ base = InitBase
    /\ sup = [i \in SupportShips |-> InitSupport(1)]
    /\ tick = 0
    /\ pc = "forecast"
    /\ forecast_data \in LandForecasts
    /\ TY_start_time_list = [n \in ForecastNumbers |-> 0]
    /\ target_TY_data = {}
    /\ next_time_TY_data = {}
    /\ forecaster = InitForecaster

SpecLand == InitLand /\ [][NextTarget]_vars

----------------------------------------------------------------------------
(* Properties *)

\* C1: after every tick of the TPG ship its main storage lies between 0 and
\* max_storage; a propulsion shortfall never drives it below 0.
C1_MainStorageInRange ==
    0 <= ship.storage /\ ship.storage <= max_storage

\* C2: in a tick of the TPG ship without truncation at max_storage and
\* without unloading, main storage plus propulsion buffer after the tick
\* equals their sum before the tick plus the recorded gene_elect minus the
\* recorded loss_elect.
C2_EnergyConserved ==
    [][ ( /\ pc = "ship"
          /\ ship'.storage < max_storage
          /\ \A k \in 1..Len(ship'.brance_history) :
                ship'.brance_history[k] \notin
                    {"arrival at base station", "arrival at standby position"} )
        => ship'.storage + ship'.electric_propulsion_storage_wh
             = ship.storage + ship.electric_propulsion_storage_wh
               + ship'.gene_elect - ship'.loss_elect ]_vars

\* C3: when the base storage reaches the call threshold while both support
\* ships are idle at their supply bases and neither latch is set, the base
\* takes the "call ship1" branch: ship 1 leaves its supply base with its
\* latch set (the latch is cleared again only if ship 1 arrives and is served
\* in that same call), and call_ship2 and every field of ship 2 are unchanged.
C3_DispatchPriority ==
    [][ ( /\ pc = "base"
          /\ (base.storage + ship.supply_elect) * 100 >= sup[1].max_storage * call_per
          /\ \A i \in SupportShips :
                sup[i].arrived_supplybase = 1 /\ sup[i].arrived_storagebase = 0
          /\ base.call_ship1 = 0 /\ base.call_ship2 = 0 )
        => /\ base'.brance_condition = "call ship1"
           /\ sup'[1].arrived_supplybase = 0
           /\ sup'[1].dist_to_supply > 0
           /\ \/ base'.call_ship1 = 1 /\ base'.call_num = base.call_num
              \/ /\ base'.call_ship1 = 0
                 /\ sup'[1].arrived_storagebase = 1
                 /\ base'.call_num = base.call_num + 1
           /\ base'.call_ship2 = base.call_ship2
           /\ sup'[2] = sup[2] ]_vars

\* a dispatch of ship 1 from the idle state has just happened
C3_Witness ==
    /\ pc = "ship"
    /\ base.brance_condition = "call ship1"
    /\ base.call_ship1 = 1
    /\ base.call_num = 0
    /\ sup[1].arrived_supplybase = 0 /\ sup[1].arrived_storagebase = 0
    /\ sup[1].dist_to_supply = 1
    /\ sup[2].arrived_supplybase = 1 /\ sup[2].dist_to_supply = 0
    /\ base.call_ship2 = 0

\* C4: once ship 1 is called, call_ship1 stays 1 at the end of every tick
\* until the tick in which ship 1 is seen arrived at the storage base; in
\* that tick the base offloads to it exactly once (call_num grows by 1) and
\* clears the latch; a ship 1 still carrying cargo is never called, so it gets
\* no second transfer before it is back at its supply base.
C4_Ship1Latch ==
    /\ [](base.call_ship1 = 1 => sup[1].storage = 0)
    /\ [][ (pc = "base" /\ base.call_ship1 = 1)
           => \/ /\ base'.call_ship1 = 1
                 /\ base'.call_num = base.call_num
                 /\ sup'[1].arrived_storagebase = 0
              \/ /\ base'.call_ship1 = 0
                 /\ base'.call_num = base.call_num + 1
                 /\ sup'[1].arrived_storagebase = 1
                 /\ sup'[1].storage > 0 ]_vars

\* C5: for either support ship, a ship whose latch is set and which has
\* arrived at the storage base by the end of a tick is served in the next
\* tick (transfer, latch cleared); it never leaves unloaded with the latch set.
C5_LatchedArrivalServed ==
    [][ pc = "base"
        => \A i \in SupportShips :
              ( /\ (IF i = 1 THEN base.call_ship1 ELSE base.call_ship2) = 1
                /\ sup[i].arrived_storagebase = 1 )
              => /\ (IF i = 1 THEN base'.call_ship1 ELSE base'.call_ship2) = 0
                 /\ base'.call_num = base.call_num + 1
                 /\ sup'[i].storage > 0 ]_vars

\* C6: operation_base credits the ship's payload to the base exactly once:
\* the received total grows by the payload and ship.supply_elect is 0
\* afterwards, whatever the payload's sign, so it is not applied again.
C6_PayloadCreditedOnce ==
    [][ pc = "base"
        => /\ base'.MCH_discharged_cargo_quantity
                = base.MCH_discharged_cargo_quantity + ship.supply_elect
           /\ ship'.supply_elect = 0 ]_vars

\* C7: after every operation_base the base storage lies between 0 and the
\* base's max_storage.
C7_BaseStorageInRange ==
    0 <= base.storage /\ base.storage <= base.max_storage

\* C8: after every tick the propulsion buffer lies between 0 and
\* electric_propulsion_max_storage_wh.
C8_BufferInRange ==
    /\ 0 <= ship.electric_propulsion_storage_wh
    /\ ship.electric_propulsion_storage_wh <= electric_propulsion_max_storage_wh

\* a consuming tick has just exhausted the buffer and fallen back on the
\* main storage
C8_Witness ==
    /\ pc = "base"
    /\ ship.GS_loss_judge = 1
    /\ ship.loss_work > 0
    /\ ship.electric_propulsion_storage_state = "use power from trust's and MCH's storage"
    /\ ship.electric_propulsion_storage_wh = 0

\* C9: each support ship's storage lies between 0 and its max_storage, and a
\* ship whose latch is set (one that may receive a transfer) carries nothing.
C9_SupportStorageInRange ==
    \A i \in SupportShips :
       /\ 0 <= sup[i].storage
       /\ sup[i].storage <= sup[i].max_storage
       /\ (IF i = 1 THEN base.call_ship1 ELSE base.call_ship2) = 1 => sup[i].storage = 0

\* after three transfers (so some ship has been served at least twice) a
\* ship lies loaded to capacity at the storage base
C9_Witness ==
    /\ base.call_num >= 3
    /\ \E i \in SupportShips :
          /\ sup[i].storage = sup[i].max_storage
          /\ sup[i].arrived_storagebase = 1
          /\ sup[i].dist_to_supply = sup[i].supply_dist

\* C10: each transfer moves exactly min(base storage, ship.max_storage): the
\* base storage (after the tick's receipt) decreases by that amount, the
\* served ship holds that amount, and call_num grows by 1.
C10_TransferAmount ==
    [][ (pc = "base" /\ base'.call_num # base.call_num)
        => LET B == base.storage + ship.supply_elect
           IN  /\ base'.call_num = base.call_num + 1
               /\ \E i \in SupportShips :
                     LET amount == Min(B, sup[i].max_storage)
                     IN  /\ sup'[i].arrived_storagebase = 1
                         /\ (IF i = 1 THEN base'.brance_condition = "call ship1"
                                      ELSE base'.brance_condition = "call ship2")
                         /\ sup'[i].storage = amount
                         /\ base'.storage = B - amount ]_vars

\* a transfer has filled a ship to capacity and left the remainder at the base
C10_Witness ==
    /\ pc = "ship"
    /\ base.call_num = 1
    /\ base.storage > 0
    /\ \E i \in SupportShips :
          /\ sup[i].storage = sup[i].max_storage
          /\ sup[i].dist_to_supply = sup[i].supply_dist
          /\ sup[i].arrived_storagebase = 1

C12_ArrivalAtBase ==
    [][ ( /\ pc = "ship"
          /\ \E k \in 1..Len(ship'.brance_history) :
                ship'.brance_history[k] = "arrival at base station" )
        => /\ ship'.supply_elect = ship.storage
           /\ ship'.storage = ship'.gene_elect
           /\ ship'.go_base = 0
           /\ ship'.TY_and_base_action = 0
           /\ ship'.ship_pos = base_pos
           /\ ship'.ship_state = 0 ]_vars

\* C13: total_gene_elect never decreases; it increases in a tick only if the
\* mode at the end of the tick is Generating (ship_state = 1); the generation
\* recorded for a tick that does not end Generating is 0.
C13_GenerationOnlyWhenGenerating ==
    [][ pc = "ship"
        => /\ ship'.total_gene_elect >= ship.total_gene_elect
           /\ ship'.total_gene_elect > ship.total_gene_elect => ship'.ship_state = 1
           /\ ship'.ship_state # 1 => ship'.gene_elect = 0 ]_vars

\* a Generating tick has added its generation to a total that was already
\* positive
C13_Witness ==
    /\ pc = "base"
    /\ ship.ship_state = 1
    /\ ship.gene_elect > 0
    /\ ship.total_gene_elect > ship.gene_elect

C15_AtMostOneRow ==
    pc = "target"
    => LET passed == PassingRows(ship, forecast_data, TY_start_time_list)
       IN  IF passed = {} THEN target_TY_data = {}
           ELSE Cardinality(target_TY_data) = 1

\* C16: every returned row is a passing candidate with the maximum score;
\* among the candidates of that score it has the longest expected generation
\* time, and among those the shortest effective catch time.
C16_BestRowSelected ==
    pc = "target"
    => LET passed == PassingRows(ship, forecast_data, TY_start_time_list)
       IN  \A r \in target_TY_data :
              /\ r \in passed
              /\ \A c \in passed :
                    /\ c.TIME_EFFECT <= r.TIME_EFFECT
                    /\ c.TIME_EFFECT = r.TIME_EFFECT
                         => /\ c.FORE_GENE_TIME <= r.FORE_GENE_TIME
                            /\ c.FORE_GENE_TIME = r.FORE_GENE_TIME
                                 => c.TY_CATCH_TIME >= r.TY_CATCH_TIME

\* exactly one row was returned out of two candidates of the same score, the
\* other one with a shorter generation time
C16_Witness ==
    /\ pc = "target"
    /\ Cardinality(target_TY_data) = 1
    /\ \E r \in target_TY_data :
       \E c \in PassingRows(ship, forecast_data, TY_start_time_list) :
          /\ c.TIME_EFFECT = r.TIME_EFFECT
          /\ c.FORE_GENE_TIME < r.FORE_GENE_TIME

\* C17: no returned row has a ratio of ship catch time to typhoon arrival time
\* above judge_time_times; a row above it is rejected even when its score is
\* the highest of the forecast.
C17_JudgeTimeTimesRespected ==
    pc = "target"
    => \A r \in target_TY_data :
          CeilDiv(Distance(ship.ship_pos, r.pos), CatchSpeed(ship) * time_step)
                * judge_time_times.den
             <= judge_time_times.num * r.unixtime

\* a row was returned while a sea-area row above the ratio scored strictly
\* higher than it
C17_Witness ==
    /\ pc = "target"
    /\ \E r \in target_TY_data :
       \E c \in WithColumns(ship, { q \in forecast_data : InSeaArea(q.pos) },
                            TY_start_time_list) :
          /\ CeilDiv(Distance(ship.ship_pos, c.pos), CatchSpeed(ship) * time_step)
                * judge_time_times.den
               > judge_time_times.num * c.unixtime
          /\ c.TIME_EFFECT > r.TIME_EFFECT

\* C18: in a tick that starts below the return threshold with go_base = 0, in
\* which a target row is selected and no via-base detour is taken: if the
\* row's TY_CATCH_TIME is at most one time step the tick ends Generating
\* (ship_state 1, generation flag 1, consumption flag 0); otherwise it ends
\* Chasing (ship_state 2, consumption flag 1) unless the proximity override
\* has applied.
C18_ChaseRule ==
    [][ ( /\ pc = "ship"
          /\ ship.storage_percentage < judge_energy_storage_per
          /\ ship.go_base = 0
          /\ target_TY_data' # {}
          /\ \A k \in 1..Len(ship'.brance_history) :
                ship'.brance_history[k] # "tracking typhoon via base" )
        => \A row \in target_TY_data' :
              IF row.TY_CATCH_TIME <= time_step
              THEN /\ ship'.ship_state = 1
                   /\ ship'.GS_gene_judge = 1
                   /\ ship'.GS_loss_judge = 0
              ELSE \/ /\ ship'.ship_state = 2
                      /\ ship'.GS_loss_judge = 1
                      /\ ship'.GS_gene_judge = 0
                   \/ /\ ship'.brance_condition = "within 50km of a typhoon following"
                      /\ ship'.ship_state = 1 ]_vars

\* a tick of the chase branch whose target was one time step away has ended
\* Generating
C18_Witness ==
    /\ pc = "base"
    /\ \E row \in target_TY_data : row.TY_CATCH_TIME <= time_step
    /\ ship.brance_history =
          <<"tracking typhoon at maximum ship speed started", "arrived at typhoon">>
    /\ ship.ship_state = 1
    /\ ship.GS_gene_judge = 1
    /\ ship.GS_loss_judge = 0

\* C19: whenever the ship switches to Generating because the catch time of its
\* target row is at most one time step, the ship's position at the end of that
\* tick is the forecast position of the row.
C19_SnapOnArrival ==
    [][ ( /\ pc = "ship"
          /\ ship'.brance_condition = "arrived at typhoon"
          /\ ship'.ship_state = 1 )
        => \A row \in target_TY_data' :
              row.TY_CATCH_TIME <= time_step => ship'.ship_pos = row.pos ]_vars

\* C20 (as stated): in any tick in which a typhoon is targeted, if the
\* target's next-tick forecast row exists and the ship's position after the
\* position update is within typhoon_effective_range of it, the tick ends
\* Generating (ship_state 1, generation flag 1), whichever phase was chosen
\* earlier in the tick.
C20_ProximityOverrideAsStated ==
    [][ ( /\ pc = "ship"
          /\ target_TY_data' # {}
          /\ \E nxt \in next_time_TY_data' :
                Distance(ship'.ship_pos, nxt.pos) <= typhoon_effective_range )
        => /\ ship'.ship_state = 1
           /\ ship'.GS_gene_judge = 1 ]_vars

\* C20 (amended): in any tick in which typhoon_chase_action found the target
\* further than one time step away ("tracking typhoon", which sets
\* distance_check), a via-base detour included, if the target's next-tick
\* forecast row exists and the ship's position after the position update is
\* within typhoon_effective_range of it, the tick ends Generating
\* (ship_state 1, generation flag 1, consumption flag 0).
C20_ProximityOverride ==
    [][ ( /\ pc = "ship"
          /\ \E k \in 1..Len(ship'.brance_history) :
                ship'.brance_history[k] = "tracking typhoon"
          /\ \E nxt \in next_time_TY_data' :
                Distance(ship'.ship_pos, nxt.pos) <= typhoon_effective_range )
        => /\ ship'.ship_state = 1
           /\ ship'.GS_gene_judge = 1
           /\ ship'.GS_loss_judge = 0 ]_vars

\* a tick that chose the via-base detour while tracking has ended Generating
\* because the ship came within range of the typhoon's next position
C20_Witness ==
    /\ pc = "base"
    /\ \E k \in 1..Len(ship.brance_history) :
          ship.brance_history[k] = "tracking typhoon via base"
    /\ ship.brance_condition = "within 50km of a typhoon following"
    /\ \E nxt \in next_time_TY_data :
          Distance(ship.ship_pos, nxt.pos) <= typhoon_effective_range
    /\ ship.ship_state = 1
    /\ ship.GS_gene_judge = 1

\* the via-base test of typhoon_chase_action on the ship s at the start of the
\* tick and the selected row
ViaBaseCondition(s, row) ==
    /\ s.storage_percentage >= govia_base_judge_energy_storage_per
    /\ \/ Distance(s.ship_pos, base_pos) + Distance(row.pos, base_pos)
             <= row.TY_CATCH_TIME * max_speed
       \/ /\ Abs(get_direction(s.ship_pos, row.pos) - get_direction(s.ship_pos, base_pos))
                < judge_direction
          /\ Distance(s.ship_pos, row.pos) - Distance(s.ship_pos, base_pos) > 0

\* label l was assigned to brance_condition during the last ship step of s
HasBranch(s, l) == \E k \in 1..Len(s.brance_history) : s.brance_history[k] = l

C22_NoTargetRule ==
    [][ ( /\ pc = "ship"
          /\ ship.storage_percentage < judge_energy_storage_per
          /\ ship.go_base = 0
          /\ target_TY_data' = {} )
        => /\ ship'.target_TY = 0
           /\ IF ship.storage_percentage >= govia_base_judge_energy_storage_per
              THEN /\ ship'.target_pos = base_pos
                   /\ ship'.target_name = "base station"
                   /\ ship'.brance_condition = "return standby via base"
                   /\ ship'.standby_via_base = 1
              ELSE /\ ship'.target_pos = standby_pos
                   /\ ship'.target_name = "Standby position"
                   /\ ship'.standby_via_base = 0 ]_vars

\* after a typhoon was chased, a tick without any candidate has sent the ship,
\* below the via-base threshold, towards the standby position
C22_Witness ==
    /\ pc = "base"
    /\ target_TY_data = {}
    /\ ship.target_TY = 0
    /\ ship.brance_condition = "returning to standby position as no typhoon"
    /\ ship.target_name = "Standby position"
    /\ ship.target_pos = standby_pos
    /\ ship.ship_pos # standby_pos
    /\ ship.ship_state = 4

\* C23: for each support ship, in every reachable state, the flags
\* arrived_supplybase and arrived_storagebase are never both 1, so the final
\* else of Support_ship.get_next_ship_state is never entered.
C23_ArrivalFlagsExclusive ==
    \A i \in SupportShips :
        ~(sup[i].arrived_supplybase = 1 /\ sup[i].arrived_storagebase = 1)

\* a support ship is back at its supply base after a served round trip while
\* the other one stands at the storage base
C23_Witness ==
    /\ pc = "ship"
    /\ base.call_num >= 1
    /\ \E i, j \in SupportShips :
          /\ i # j
          /\ sup[i].brance_condition = "arrival at supply Base"
          /\ sup[i].arrived_supplybase = 1 /\ sup[i].arrived_storagebase = 0
          /\ sup[j].arrived_supplybase = 0 /\ sup[j].arrived_storagebase = 1

\* C24: in every tick each support ship makes at most one transit step, that
\* is, it travels at most cruise speed x time_step (one cell), whether or not
\* its call latch is set and whether or not the base storage is above the
\* call threshold.
C24_OneTransitStepPerTick ==
    [][ pc = "base"
        => \A i \in SupportShips :
              Abs(sup'[i].dist_to_supply - sup[i].dist_to_supply) <= 1 * time_step ]_vars

\* C25: when the base storage has reached the call threshold but neither
\* support ship is callable at the dispatch step (neither is at its supply base
\* and neither latch is set), the dispatch step records the label "can't call
\* anyone" and changes nothing else: base storage, both latches, call_num and
\* both ships are as the earlier steps of operation_base left them.
C25_CantCallAnyoneFrame ==
    [][ pc = "base"
        => LET w == MoveShipsInTransit(storage_elect([b |-> base, s |-> ship, u |-> sup]))
           IN  ( /\ ReachesCallThreshold(w)
                 /\ \A i \in SupportShips : w.u[i].arrived_supplybase = 0
                 /\ w.b.call_ship1 = 0 /\ w.b.call_ship2 = 0 )
               => /\ base'.brance_condition = "can't call anyone"
                  /\ base'.storage = base.storage + ship.supply_elect
                  /\ base'.call_ship1 = 0 /\ base'.call_ship2 = 0
                  /\ base'.call_num = base.call_num
                  /\ base'.MCH_discharged_cargo_quantity = w.b.MCH_discharged_cargo_quantity
                  /\ sup' = w.u
                  /\ \A i \in SupportShips : sup'[i].storage = sup[i].storage ]_vars

\* the base holds at least the call threshold, both ships are away without a
\* latch, and the dispatch step has recorded that nobody could be called
C25_Witness ==
    /\ pc = "ship"
    /\ base.brance_condition = "can't call anyone"
    /\ base.storage * 100 >= sup[1].max_storage * call_per
    /\ base.call_ship1 = 0 /\ base.call_ship2 = 0
    /\ base.call_num >= 2
    /\ \A i \in SupportShips : sup[i].arrived_supplybase = 0

\* the track points of the forecaster whose unixtime lies in a window
TrackIn(lo, hi) == { r \in forecaster.original_data : lo <= r.unixtime /\ r.unixtime <= hi }

\* the frame holds exactly one point for each track point of W and no other
OnePointEach(frame, W) ==
    /\ \A r \in W :
          Cardinality({ q \in frame : q.num = r.num /\ q.unixtime = r.unixtime
                                       /\ q.TRUE_pos = r.pos }) = 1
    /\ \A q \in frame :
          \E r \in W : q.num = r.num /\ q.unixtime = r.unixtime /\ q.TRUE_pos = r.pos

\* C26 as stated: create_forecast returns exactly one forecast point for every
\* track point whose unixtime lies in the half-open window
\* (current_time + time_step, current_time + forecast_time] and no other.
C26_ForecastWindowAsStated ==
    pc = "target"
    => OnePointEach(forecast_data,
                    TrackIn(current_time + time_step * SecondsPerHour + 1,
                            current_time + forecaster.forecast_time * SecondsPerHour))

\* C26: create_forecast returns exactly one forecast point for every track
\* point whose unixtime lies in the closed window
\* [current_time + time_step, current_time + forecast_time] and no other.
C26_ForecastWindow ==
    pc = "target"
    => OnePointEach(forecast_data,
                    TrackIn(current_time + time_step * SecondsPerHour,
                            current_time + forecaster.forecast_time * SecondsPerHour))

\* a forecast holding the points at both ends of the window, made from a track
\* that has a point outside the window as well
C26_Witness ==
    /\ pc = "target"
    /\ \E q \in forecast_data : q.unixtime = current_time + time_step * SecondsPerHour
    /\ \E q \in forecast_data :
          q.unixtime = current_time + forecaster.forecast_time * SecondsPerHour
    /\ \E r \in forecaster.original_data :
          \/ r.unixtime < current_time + time_step * SecondsPerHour
          \/ r.unixtime > current_time + forecaster.forecast_time * SecondsPerHour

\* C27: the ship never targets a point on land: every row returned by
\* get_target_data lies outside the coastal exclusion region, that is, for each
\* latitude band of the table that holds its latitude, its forecast longitude
\* is at or east of that band's longitude threshold.
C27_NoTargetOnLand ==
    \A r \in target_TY_data :
       \/ FORE_LAT(r.pos) >= OpenSeaLat
       \/ /\ \E band \in LandBands :
                FORE_LAT(r.pos) >= band.lo /\ FORE_LAT(r.pos) <= band.hi
          /\ \A band \in LandBands :
                (FORE_LAT(r.pos) >= band.lo /\ FORE_LAT(r.pos) <= band.hi)
                => FORE_LON(r.pos) >= band.lon

\* C28: target scoring never divides by zero: in the tick's call of
\* get_target_data the speed the catch time is divided by is positive (max
\* speed when the ship's speed is 0), and every forecast row that reaches the
\* scoring loop has a typhoon arrival lead time greater than 0.
C28_NoDivisionByZero ==
    pc = "target"
    => /\ CatchSpeed(ship) * time_step > 0
       /\ (ship.speed_kt = 0 => CatchSpeed(ship) = max_speed)
       /\ \A r \in forecast_data :
             InSeaArea(r.pos) => typhoon_arrival_time(r, current_time) > 0

\* a stopped ship scores, in a later tick, a forecast point with the shortest
\* lead time the forecast can hold
C28_Witness ==
    /\ pc = "target"
    /\ tick >= 1
    /\ ship.speed_kt = 0
    /\ \E r \in forecast_data :
          /\ InSeaArea(r.pos)
          /\ typhoon_arrival_time(r, current_time) = time_step

\* C29: ship_state is always one of the documented codes (0 standby,
\* 1 generating, 2 chasing, 3 return to base, 4 return to standby), and in the
\* return phases it tells the two apart: it is 3 while the ship is en route to
\* the base and 4 while it is en route to the standby position.
C29_ShipStateCodes ==
    /\ ship.ship_state \in {0, 1, 2, 3, 4}
    /\ ship.ship_state \in {3, 4}
       => /\ ship.target_name = "base station" => ship.ship_state = 3
          /\ ship.target_name = "Standby position" => ship.ship_state = 4

\* C30: cal_error_radius_km(time_step, t) is 0 at t = time_step, it is
\* non-decreasing in t (the slope is never negative), and it is never negative
\* for a track point that create_forecast processes.
C30_ErrorRadius ==
    /\ cal_error_radius_km(forecaster, time_step, time_step) = 0
    /\ \A t1, t2 \in 0..MaxTrackHour :
          t1 <= t2 => cal_error_radius_km(forecaster, time_step, t1)
                        <= cal_error_radius_km(forecaster, time_step, t2)
    /\ \A r \in forecast_true_data(forecaster, time_step, current_time) :
          cal_error_radius_km(forecaster, time_step,
                              advance_time_hour_of(r, current_time)) >= 0

\* with a positive slope, a forecast holds the point one time_step ahead at its
\* true position and a later point moved away from its true position
C30_Witness ==
    /\ pc = "target"
    /\ forecaster.slope > 0
    /\ \E q \in forecast_data :
          /\ q.unixtime = current_time + time_step * SecondsPerHour
          /\ q.pos = q.TRUE_pos
    /\ \E q \in forecast_data :
          /\ q.unixtime > current_time + time_step * SecondsPerHour
          /\ q.pos # q.TRUE_pos

\* the ship records that agree with s on everything get_target_data reads
\* (position, speed, forecast_weight) and differ in what earlier ticks left
\* behind: the targeted typhoon and the return flag
LeftoverVariants(s) ==
    { [s EXCEPT !.target_TY = t, !.go_base = g] :
        t \in {0} \cup ForecastNumbers, g \in {0, 1} }

StorageBeforeAccounting ==
    IF HasBranch(ship', "arrival at base station")
       \/ HasBranch(ship', "arrival at standby position")
    THEN 0 ELSE ship.storage

BufferBeforeAccounting ==
    IF HasBranch(ship', "arrival at standby position")
    THEN electric_propulsion_max_storage_wh
    ELSE ship.electric_propulsion_storage_wh

\* C32: on a consuming tick with electrical demand d, if the propulsion buffer
\* holds at least d the buffer decreases by exactly d and the main storage is
\* not debited; otherwise the buffer becomes 0 and the main storage is debited
\* by (d - buffer before) / MCH_to_elect_efficiency.  The main storage is never
\* debited in a tick that leaves the buffer non-empty.
C32_ConsumptionAccounting ==
    [][ pc = "ship"
        => LET d == DivEff(ship'.loss_work, elect_trust_efficiency)
               buffer_before == BufferBeforeAccounting
           IN  /\ ship'.GS_loss_judge = 1
                  => IF buffer_before >= d
                     THEN /\ ship'.electric_propulsion_storage_wh = buffer_before - d
                          /\ ship'.storage = StorageBeforeAccounting
                     ELSE /\ ship'.electric_propulsion_storage_wh = 0
                          /\ ship'.storage = StorageBeforeAccounting
                               - DivEff(d - buffer_before, MCH_to_elect_efficiency)
               /\ ship'.storage < StorageBeforeAccounting
                  => ship'.electric_propulsion_storage_wh = 0 ]_vars

\* a consuming tick has emptied a partly filled buffer and drawn the rest of a
\* positive demand from the main storage
C32_Witness ==
    /\ pc = "base"
    /\ ship.GS_loss_judge = 1
    /\ ship.loss_work > 0
    /\ ship.electric_propulsion_storage_wh = 0
    /\ ship.electric_propulsion_storage_state = "use power from trust's and MCH's storage"
    /\ ship.loss_elect > 0
    /\ ship.loss_elect < DivEff(DivEff(ship.loss_work, elect_trust_efficiency),
                                MCH_to_elect_efficiency)

\* C33: on a generating tick with raw output g = generator_output_w * time_step
\* and buffer headroom h, if g < h the buffer gains g and the main storage
\* gains nothing; otherwise the buffer becomes full and the main storage gains
\* (g - h) * elect_to_MCH_efficiency, truncated at max_storage.  The main
\* storage never gains in a tick that leaves the buffer below capacity.
C33_GenerationAccounting ==
    [][ pc = "ship"
        => LET g == generator_output_w * time_step
               h == electric_propulsion_max_storage_wh - BufferBeforeAccounting
           IN  /\ ship'.GS_gene_judge = 1
                  => IF g < h
                     THEN /\ ship'.electric_propulsion_storage_wh = BufferBeforeAccounting + g
                          /\ ship'.storage = StorageBeforeAccounting
                     ELSE /\ ship'.electric_propulsion_storage_wh
                               = electric_propulsion_max_storage_wh
                          /\ ship'.storage
                               = Min(StorageBeforeAccounting
                                       + MulEff(g - h, elect_to_MCH_efficiency),
                                     max_storage)
               /\ ship'.storage > StorageBeforeAccounting
                  => ship'.electric_propulsion_storage_wh
                       = electric_propulsion_max_storage_wh ]_vars

\* a generating tick has filled a partly empty buffer and stored the rest
C33_Witness ==
    /\ pc = "base"
    /\ ship.GS_gene_judge = 1
    /\ ship.electric_propulsion_storage_state = "charge power storage for trust (full)"
    /\ ship.electric_propulsion_storage_wh = electric_propulsion_max_storage_wh
    /\ ship.gene_elect > 0
    /\ ship.gene_elect < MulEff(generator_output_w * time_step, elect_to_MCH_efficiency)

\* C35: at the end of every tick the generation flag GS_gene_judge and the
\* consumption flag GS_loss_judge are not both 1, and ship_state is 1
\* (Generating) exactly when GS_gene_judge is 1.
C35_FlagsAndState ==
    /\ ~(ship.GS_gene_judge = 1 /\ ship.GS_loss_judge = 1)
    /\ ship.ship_state = 1 <=> ship.GS_gene_judge = 1

\* the proximity override has turned a chasing tick into a generating one
C35_Witness ==
    /\ pc = "base"
    /\ HasBranch(ship, "within 50km of a typhoon following")
    /\ ship.ship_state = 1
    /\ ship.GS_gene_judge = 1
    /\ ship.GS_loss_judge = 0
    /\ tick >= 1

\* C36: whenever the ship ends a tick in Generating mode (ship_state = 1), its
\* target is a typhoon forecast position: the target is neither the base nor
\* the standby position and go_base is not set.
C36_GeneratesOnlyAtTyphoon ==
    ( pc = "base" /\ ship.ship_state = 1 )
    => /\ ship.target_pos \in TyphoonPositions
       /\ ship.target_pos # base_pos /\ ship.target_pos # standby_pos
       /\ ship.go_base = 0

\* C37: the two call latches of the storage base are never set at the same
\* time: call_ship1 = 1 and call_ship2 = 1 do not both hold.
C37_LatchesExclusive ==
    ~(base.call_ship1 = 1 /\ base.call_ship2 = 1)

\* C38: the bookkeeping of the storage base is conservative: the cumulative
\* amount received from the ship (MCH_discharged_cargo_quantity) equals the
\* base's current storage plus the sum of all amounts handed to support ships.
C38_BaseConservative ==
    base.MCH_discharged_cargo_quantity = base.storage + base.supplied_total

C38_Witness ==
    /\ base.supplied_total > 0
    /\ base.storage > 0
    /\ base.call_num >= 2
    /\ C38_BaseConservative

\* C40: on every tick that ends in Generating mode (ship_state = 1) the ship
\* is charged no propulsion energy: the recorded consumption loss_elect is 0,
\* total_loss_elect and total_loss_time are unchanged, and neither the
\* propulsion buffer nor the main storage is debited by the accounting.
C40_GeneratingIsFree ==
    [][ pc = "ship" /\ ship'.ship_state = 1
        => /\ ship'.loss_elect = 0
           /\ ship'.total_loss_elect = ship.total_loss_elect
           /\ ship'.total_loss_time = ship.total_loss_time
           /\ ship'.electric_propulsion_storage_wh >= BufferBeforeAccounting
           /\ ship'.storage >= StorageBeforeAccounting ]_vars

\* a generating tick has ended after the ship had already been charged for
\* propulsion in earlier ticks
C40_Witness ==
    /\ pc = "base"
    /\ ship.ship_state = 1
    /\ ship.total_loss_elect > 0
    /\ ship.total_loss_time > 0
    /\ ship.total_gene_elect > 0

(* The scan of get_target_data over the typhoon ids of the forecast, and the
   lookup of a row's forecast end time in the list the scan builds.  The ids
   of a forecast need not be consecutive. *)

MaxTyphoonId == 4       \* largest typhoon id of a forecast with gaps
MaxScanRows == 3        \* largest number of rows of such a forecast

ScanNumbers == 1..MaxTyphoonId

\* the loop over range(TY_num_forecast): left is the number of iterations to
\* go, TY_bangou the id looked at.  The inner while loop skips the ids without
\* rows and notes them; it cannot end once TY_bangou is past the last id.
RECURSIVE ScanIds(_, _, _, _, _)
ScanIds(rows, TY_bangou, left, ends, missing) ==
    LET typhoon_data_by_num == {r \in rows : r.num = TY_bangou}
    IN  IF left = 0
        THEN [TY_forecast_end_time |-> ends, missing_num_list |-> missing,
              terminated |-> TRUE]
        ELSE IF TY_bangou > SetMax({r.num : r \in rows})
        THEN [TY_forecast_end_time |-> ends, missing_num_list |-> missing,
              terminated |-> FALSE]
        ELSE IF typhoon_data_by_num = {}
        THEN ScanIds(rows, TY_bangou + 1, left, ends, Append(missing, TY_bangou))
        ELSE ScanIds(rows, TY_bangou + 1, left - 1,
                     Append(ends, SetMax({r.unixtime : r \in typhoon_data_by_num})),
                     missing)

\* the scan from the smallest id of a non-empty forecast
ScanForecastIds(rows) ==
    LET TY_start_bangou == SetMin({r.num : r \in rows})
        TY_num_forecast == Cardinality({r.num : r \in rows})
    IN  ScanIds(rows, TY_start_bangou, TY_num_forecast, << >>, << >>)

\* the number of noted gaps at or below the id of the row
adjustment_num(missing, TY_predict_bangou) ==
    Cardinality({j \in 1..Len(missing) : TY_predict_bangou >= missing[j]})

\* variant of data_reference_num that does not compensate for the gaps
data_reference_num_NoAdjustment(rows, missing, TY_predict_bangou) ==
    TY_predict_bangou - SetMin({r.num : r \in rows})

\* the index (from 0) into TY_forecast_end_time used for a row
data_reference_num(rows, missing, TY_predict_bangou) ==
    TY_predict_bangou - SetMin({r.num : r \in rows})
        - adjustment_num(missing, TY_predict_bangou)

\* list[k] as Python evaluates it: a negative k counts from the end, and an
\* index outside the list raises IndexError (here: no value)
PyIndex(list, k) ==
    IF 0 <= k /\ k < Len(list) THEN [raised |-> FALSE, value |-> list[k + 1]]
    ELSE IF 0 - Len(list) <= k /\ k < 0
    THEN [raised |-> FALSE, value |-> list[Len(list) + k + 1]]
    ELSE [raised |-> TRUE, value |-> -1]

\* the rows of the forecast with the index and the end time the lookup gives
ForecastEndTimes(rows) ==
    IF rows = {} THEN {}
    ELSE LET scan == ScanForecastIds(rows)
         IN  { [num |-> r.num,
                unixtime |-> r.unixtime,
                terminated |-> scan.terminated,
                list_length |-> Len(scan.TY_forecast_end_time),
                data_reference_num |->
                    data_reference_num(rows, scan.missing_num_list, r.num),
                end_time_forecast_TY |->
                    PyIndex(scan.TY_forecast_end_time,
                            data_reference_num(rows, scan.missing_num_list, r.num))] :
               r \in rows }

ScanRows ==
    [num : ScanNumbers, pos : {[lat |-> BaseLat, lon |-> MaxLon]},
     unixtime : 1..forecast_time]

\* the sets of at most k such rows
RECURSIVE ScanRowSetsUpTo(_)
ScanRowSetsUpTo(k) ==
    IF k = 0 THEN {{}}
    ELSE LET P == ScanRowSetsUpTo(k - 1)
         IN  P \cup { F \cup {r} : F \in P, r \in ScanRows }

InitScan ==
    /\ ship = InitShip
    /\ base = InitBase
    /\ sup = [i \in SupportShips |-> InitSupport(1)]
    /\ tick = 0
    /\ pc = "forecast"
    /\ forecast_data \in ScanRowSetsUpTo(MaxScanRows)
    /\ TY_start_time_list = [n \in ScanNumbers |-> 0]
    /\ target_TY_data = {}
    /\ next_time_TY_data = {}
    /\ forecaster = InitForecaster

\* the part of one call of get_target_data that finds the end time of the
\* typhoon of every row
ScanForecast ==
    /\ pc = "forecast"
    /\ target_TY_data' = ForecastEndTimes(forecast_data)
    /\ pc' = "target"
    /\ UNCHANGED <<ship, base, sup, tick, forecast_data, TY_start_time_list,
                   next_time_TY_data, forecaster>>

NextScan == ScanForecast

SpecScan == InitScan /\ [][NextScan]_vars

\* C34: whatever typhoon ids are present in the forecast (consecutive or
\* not), the id scan terminates, the index used for a row is within the list
\* of end times, and the end time found for the row is the latest time among
\* the forecast rows of the same typhoon id.
C34_IdGapCompensation ==
    pc = "target"
    => \A e \in target_TY_data :
         /\ e.terminated
         /\ 0 <= e.data_reference_num
         /\ e.data_reference_num < e.list_length
         /\ ~e.end_time_forecast_TY.raised
         /\ e.end_time_forecast_TY.value
              = SetMax({r.unixtime : r \in {q \in forecast_data : q.num = e.num}})

\* the forecast holds two ids separated by a gap of two ids, and the later
\* typhoon has an earlier and a later row
C34_Witness ==
    /\ pc = "target"
    /\ {e.num : e \in target_TY_data} = {1, 4}
    /\ \E e \in target_TY_data :
         /\ e.num = 4
         /\ e.data_reference_num = 1
         /\ e.unixtime < e.end_time_forecast_TY.value

(* The return to the base over a longer run of the loop.  The driver executes
   the loop body once per tick without condition, so a step that is possible
   is eventually taken. *)

MaxReturnTicks == 7     \* iterations of the driver loop when the return is followed

\* the ticks a return can take on this map: one tick in which a detour is
\* reconsidered, then the way back at nomal_ave_speed
ReturnTicks == MaxLon

InitReturn ==
    /\ Init
    /\ sup = [i \in SupportShips |-> InitSupport(1)]

\* the ship step of the longer loop, in calm weather and against the wind
ReturnShipStep ==
    /\ tick < MaxReturnTicks
    /\ ShipTickWith({0, MaxLossWork})

NextReturn == ReturnShipStep \/ BaseStep

\* the loop turning: the ship step, then the base step that ends the tick
LoopTurn ==
    \/ pc = "ship" /\ tick < MaxReturnTicks /\ pc' = "base" /\ tick' = tick
    \/ pc = "base" /\ pc' = "ship" /\ tick' = tick + 1

SpecReturn == InitReturn /\ [][NextReturn]_vars /\ WF_<<pc, tick>>(LoopTurn)

\* C39: whenever go_base is set (and the run has at least ReturnTicks ticks
\* left), the ship eventually is at the base with go_base cleared, whatever
\* typhoons the forecast shows meanwhile; and go_base changes from 1 to 0
\* only in a ship step that arrives at the base and hands over the storage.
C39_ReturnResolves ==
    /\ (ship.go_base = 1 /\ pc = "ship" /\ tick + ReturnTicks <= MaxReturnTicks)
          ~> (ship.go_base = 0 /\ ship.ship_pos = base_pos)
    /\ [][ ship.go_base = 1 /\ ship'.go_base = 0
           => /\ pc = "ship"
              /\ HasBranch(ship', "arrival at base station")
              /\ ship'.ship_pos = base_pos
              /\ ship'.supply_elect = ship.storage
              /\ ship'.storage = 0 ]_vars

\* the return flag is set at the start of a tick with the ship two cells from
\* the base, on a detour that a typhoon in the forecast can still change
C39_Witness ==
    /\ ship.go_base = 1
    /\ pc = "ship"
    /\ tick + ReturnTicks <= MaxReturnTicks
    /\ ship.TY_and_base_action = 1
    /\ Distance(ship.ship_pos, base_pos) >= 2

====
